---- MODULE Spec2Model ----
(***************************************************************************)
(* State-machine model of the threema-openclaw linked-device client:      *)
(*   - CspHandler      (csp-handler.ts, src/unnamed/part_001)              *)
(*   - MediatorClient  (src/src/mediator-client.ts)                        *)
(*   - startAccount    (channel plugin, src/unnamed/part_005)              *)
(*                                                                         *)
(* The specifications share the variables:                                 *)
(*   SpecCsp       the CSP handler alone, driven by proxy data             *)
(*   Spec          reflected-frame handling and incoming-message dedupe    *)
(*   SpecSend      connection, send paths, pending-ack tables, timers and  *)
(*                 teardown, with the nested CSP handler                   *)
(*   SpecSendFair  SpecSend with one caller, timers and continuations fair *)
(*   SpecWait      connection, CSP handshake and the readiness waiters     *)
(*   SpecDedupe    the dedupe set and its state file over disconnects,     *)
(*                 crashes and restarts                                    *)
(*   SpecAccount   startAccount (part_005): the account that owns the      *)
(*                 client, the mediator handshake and the reconnect loop;  *)
(*                 SpecAccountFair adds fair timers                        *)
(*   SpecReflect   follower sends and the allocation of reflect ids        *)
(*   SpecGroup     group text and group reaction: reflection, nonces and   *)
(*                 the per-member fan-out                                  *)
(*   SpecLink      device linking: the rendezvous connection               *)
(*                 (rendezvous.ts), runDeviceJoin and main (part_002)      *)
(*   SpecReply     the evolving group reply of the channel plugin          *)
(*                 (part_005): session entry, partial chain, deliver       *)
(*   SpecScenario  one inbound group message answered by an evolving reply *)
(*                 streamed in chunks                                      *)
(*   SpecAccountReply  SpecAccount with an evolving reply in progress      *)
(*   SpecInbound   reflected envelopes handed to the agent (onEnvelope,    *)
(*                 handleInboundEnvelope) during and after start-up        *)
(*   SpecHost      the account with direct-typing sessions and stop()      *)
(*   SpecBothPaths incoming messages arriving over the CSP proxy and as    *)
(*                 reflected envelopes, sharing the dedupe set             *)
(* Variables a specification does not use stay at their initial value.     *)
(***************************************************************************)
EXTENDS Integers, Sequences, FiniteSets, TLC

(***************************************************************************)
(* Bounds of the model                                                     *)
(***************************************************************************)
\* Largest CSP sequence number (csn / ssn) an action may start from.
MaxSeq == 4
\* Largest number of protocol units held in the CSP handler's receive buffer.
MaxBuffer == 2
\* Largest number of Reflected frames handled in one behaviour.
MaxRx == 3
\* Number of reflect ids: ids are unsigned and wrap (2^32 in the source, >>> 0),
\* scaled down.
ReflectIdSpace == 8
\* MAX_INCOMING_MESSAGE_DEDUPE, the capacity of the dedupe set (4,096 in the
\* source), scaled down so that eviction happens within MaxRx frames.
MAX_INCOMING_MESSAGE_DEDUPE == 2

Identities == {"AAAAAAAA", "BBBBBBBB"}
NoId == "none"
MsgIds == {1, 2}
\* messageId === undefined / null
NoMid == 0
\* flags === undefined
NoFlags == -1
Callers == {1, 2}
\* reconnectTimer === null
NoTimer == -1
WaiterIds == {1}

VARIABLES
  \* MediatorClient fields
  ws,         \* this.ws: "null" or "sock" (the socket connect() created last)
  leader,     \* this.leader
  csp,        \* this.csp, a CspHandler: state, buffer, csn, ssn ("none": null)
  pendingReflectAcks,           \* reflect id -> [by, ttl]
  pendingOutgoingMessageAcks,   \* <<identity, message id>> -> [by, ttl]
  nextReflectId,
  seenIncomingMessageKeys,
  seenIncomingMessageOrder,
  incomingMessageDedupeDirtyAdds,
  \* the environment
  sock,       \* the socket connect() created last: "none", "connecting", "open",
              \* "closing" (close() called), "closed"
  dedupeFile, \* keys held by incoming-message-dedupe.json
  calls,      \* the send operations in progress, one per caller
  waiters,    \* the waitForLeaderAndCsp / waitForCspReady calls
  \* observations
  wsSent,     \* the frames the socket connect() created last has sent, in order
  surfaced,   \* every envelope given to emit('envelope') / onEnvelope, in order
  rxReflected, \* Reflected frames handled: the ids of the non-ephemeral ones that
              \* came on this socket, and how many came in all, were ephemeral,
              \* were skipped as duplicates, did not decrypt
  cspEvents,  \* events emitted by the CSP handler (observed in SpecCsp only)
  nonceLog,   \* CSP nonces built for an encrypt or a decrypt (SpecCsp only)
  \* the device slot
  isFirstConnection, \* this.isFirstConnection
  deviceIdSaved,     \* identity.json holds a deviceId
  proc,       \* the process holding the client: "up", or "down" after a crash
  \* startAccount (the channel plugin that owns the client)
  account,    \* "idle", "starting" (first connect awaited), "running", "failed"
  stopped,
  reconnectTimer,     \* time left on the reconnect timer, NoTimer when null
  reconnectInFlight,
  connectP,   \* who awaits the promise of connect(): "none", "start", "reconnect"
  \* a group send of the MediatorClient
  group,      \* the locals of the sendGroupTextMessage / sendGroupReaction call in
              \* progress, the envelope it reflected and the containers it sent
  \* the device-linking program
  rdv,        \* the closure of setupRendezvous().connect(): state, ciphers, socket,
              \* promise, ULP queue, and what was sent and which nonces were built
  link,       \* main() and runDeviceJoin: position, join state, blobs, files written
  \* the channel plugin's evolving group reply
  reply,      \* the handling of one inbound group message: session entry, partial
              \* dispatch chain, the deliver call in progress, and the sends made
  \* the channel plugin's inbound path
  agent,      \* sentMessageIds, what the connection has received so far, and the
              \* messages and events handed to the agent
  cspIn,      \* the CSP incoming messages whose handling is under way
  \* the channel plugin's account, continued
  activeClient,  \* activeClients holds the account's client
  typing      \* directTypingSessions of the account, the typing indicator sends
              \* under way, and the final indicators sent

cspObs == <<cspEvents, nonceLog>>
dedupeVars == <<seenIncomingMessageKeys, seenIncomingMessageOrder,
                incomingMessageDedupeDirtyAdds, dedupeFile>>
ackVars == <<pendingReflectAcks, pendingOutgoingMessageAcks, nextReflectId, calls, waiters>>
connVars == <<ws, sock, leader>>
reflVars == <<surfaced, rxReflected>>
deviceVars == <<isFirstConnection, deviceIdSaved, proc>>
accountVars == <<account, stopped, reconnectTimer, reconnectInFlight, connectP, activeClient,
                 typing>>
hostVars == <<agent, cspIn>>
featureVars == <<group, rdv, link, reply, hostVars>>

vars == <<ws, leader, csp, pendingReflectAcks, pendingOutgoingMessageAcks, nextReflectId,
          seenIncomingMessageKeys, seenIncomingMessageOrder, incomingMessageDedupeDirtyAdds,
          sock, dedupeFile, calls, waiters, wsSent, surfaced, rxReflected, cspEvents, nonceLog,
          isFirstConnection, deviceIdSaved, proc,
          account, stopped, reconnectTimer, reconnectInFlight, connectP, group,
          rdv, link, reply, agent, cspIn, activeClient, typing>>

(***************************************************************************)
(* CspHandler                                                              *)
(***************************************************************************)

CSP_CONTAINER_OUTGOING_MESSAGE == 1
CSP_CONTAINER_UNBLOCK_INCOMING == 3
CSP_CONTAINER_ECHO_RESPONSE == 128
CSP_CONTAINER_OUTGOING_MESSAGE_ACK == 129
CSP_CONTAINER_INCOMING_MESSAGE_ACK == 130

\* Frames handed to the transport.
Frame(type, kind, ctype, id, mid, seq) ==
  [type |-> type, kind |-> kind, ctype |-> ctype, id |-> id, mid |-> mid, seq |-> seq]

ProxyFrame(kind, ctype, id, mid, seq) == Frame("PROXY", kind, ctype, id, mid, seq)

\* Events of the handler's EventEmitter ('log' is not modelled).
Event(name, id, mid, flags) == [name |-> name, id |-> id, mid |-> mid, flags |-> flags]

\* What the chat server (or the network) delivers on the proxy channel, one
\* protocol unit at a time.  `seq` is the sequence number the unit was sealed
\* under; the box opens only under the nonce with that number and only when
\* read as the kind of unit it is.
HelloBodies == {"ok", "cookieEq", "noEcho"}
LoginAckBodies == {"ok", "invalid"}
Unit(kind, seq, body, id, mid, flags) ==
  [kind |-> kind, seq |-> seq, body |-> body, id |-> id, mid |-> mid, flags |-> flags]

\* The units that may arrive while the handler's server sequence number is n:
\* each sealed under n (it opens) or under another number (it does not).
ProxyUnits(n) ==
  LET SealSeqs == {n, n + 1} IN
  {Unit("hello", s, b, NoId, NoMid, NoFlags) : s \in SealSeqs, b \in HelloBodies}
  \cup {Unit("loginAck", s, b, NoId, NoMid, NoFlags) : s \in SealSeqs, b \in LoginAckBodies}
  \cup {Unit("frame", s, b, NoId, NoMid, NoFlags) :
          s \in SealSeqs, b \in {"short", "tiny", "echoReq", "echoResp",
                                 "incomingShort", "outAckShort", "other"}}
  \cup {Unit("frame", s, "incoming", i, m, f) :
          s \in SealSeqs, i \in Identities, m \in {1, NoMid}, f \in {NoFlags, 0, 4}}
  \cup {Unit("frame", s, "outAck", i, m, NoFlags) :
          s \in SealSeqs, i \in Identities, m \in MsgIds}

\* A handler together with what one call produced: frames sent (out), events
\* emitted (ev), nonces built (nl) and whether the call threw.
Call(h) == [state |-> h.state, buffer |-> h.buffer, csn |-> h.csn, ssn |-> h.ssn,
            out |-> <<>>, ev |-> <<>>, nl |-> <<>>, thrown |-> FALSE]

Handler(c) == [state |-> c.state, buffer |-> c.buffer, csn |-> c.csn, ssn |-> c.ssn]

NewCspHandler == [state |-> "idle", buffer |-> <<>>, csn |-> 1, ssn |-> 1]

Throw(c) == [c EXCEPT !.thrown = TRUE]

Emit(c, e) == [c EXCEPT !.ev = Append(@, e)]

\* tryDecrypt / xsalsa20poly1305(key, nonce).decrypt: the box of unit u opens
\* under server sequence number n, read as a unit of kind k.
Opens(u, k, n) == u.kind = k /\ u.seq = n

nextClientNonce(c) ==
  [c EXCEPT !.csn = @ + 1, !.nl = Append(@, [dir |-> "client", seq |-> c.csn, ok |-> TRUE])]

nextServerNonce(c, ok) ==
  [c EXCEPT !.ssn = @ + 1, !.nl = Append(@, [dir |-> "server", seq |-> c.ssn, ok |-> ok])]

\* buildNonce(serverCookie, ssn) without advancing ssn (handshake boxes).
peekServerNonce(c, ok) ==
  [c EXCEPT !.nl = Append(@, [dir |-> "server", seq |-> c.ssn, ok |-> ok])]

\* A variant of sendContainer without the check of the Ready state.
sendContainerAnyState(c, ctype, id, mid) ==
  LET n == nextClientNonce(c) IN
  [n EXCEPT !.out = Append(@, ProxyFrame("container", ctype, id, mid, c.csn))]

sendContainer(c, ctype, id, mid) ==
  IF c.state # "ready" THEN Throw(c)
  ELSE LET n == nextClientNonce(c) IN
       [n EXCEPT !.out = Append(@, ProxyFrame("container", ctype, id, mid, c.csn))]

sendMessageAck(c, id, mid) ==
  sendContainer(c, CSP_CONTAINER_OUTGOING_MESSAGE_ACK, id, mid)

\* A variant of sendLogin that seals both login boxes under one client nonce.
sendLoginOneNonce(c) ==
  LET n == nextClientNonce(c) IN
  [n EXCEPT !.out = Append(@, ProxyFrame("login", -1, NoId, NoMid, c.csn))]

sendLogin(c) ==
  LET n == nextClientNonce(nextClientNonce(c)) IN
  [n EXCEPT !.out = Append(@, ProxyFrame("login", -1, NoId, NoMid, c.csn))]

completeServerHello(c) ==
  LET s == sendLogin([c EXCEPT !.ssn = @ + 1]) IN
  [s EXCEPT !.state = "waitingLoginAck"]

finishHandshake(c) ==
  LET s == sendContainer([c EXCEPT !.state = "ready"], CSP_CONTAINER_UNBLOCK_INCOMING,
                         NoId, NoMid) IN
  IF s.thrown THEN s ELSE Emit(s, Event("ready", NoId, NoMid, NoFlags))

handlePayloadContainer(c, u) ==
  IF u.body = "tiny" THEN Throw(c)
  ELSE
    LET e == Emit(c, Event("container", u.id, u.mid, u.flags)) IN
    CASE u.body = "echoReq" -> sendContainer(e, CSP_CONTAINER_ECHO_RESPONSE, NoId, NoMid)
      [] u.body = "incomingShort" -> Throw(e)
      [] u.body = "incoming" ->
           LET m == Emit(e, Event("message", u.id, u.mid, u.flags)) IN
           IF u.mid # NoMid /\ (u.flags = NoFlags \/ (u.flags \div 4) % 2 = 0)
           THEN sendMessageAck(m, u.id, u.mid)
           ELSE m
      [] u.body = "outAckShort" -> Throw(e)
      [] u.body = "outAck" -> Emit(e, Event("outgoingMessageAck", u.id, u.mid, NoFlags))
      [] OTHER -> e

\* Each tryConsume* yields [c |-> call state, more |-> its boolean result].
tryConsumeServerHello(c) ==
  IF Len(c.buffer) = 0 THEN [c |-> c, more |-> FALSE]
  ELSE
    LET u == Head(c.buffer)
        ok == Opens(u, "hello", c.ssn) IN
    IF u.kind = "hello" /\ u.body = "cookieEq" THEN [c |-> Throw(c), more |-> FALSE]
    ELSE IF ~ok THEN [c |-> peekServerNonce(c, FALSE), more |-> FALSE]
    ELSE IF u.body = "noEcho" THEN [c |-> Throw(peekServerNonce(c, TRUE)), more |-> FALSE]
    ELSE [c |-> completeServerHello(
                  [peekServerNonce(c, TRUE) EXCEPT !.buffer = Tail(c.buffer)]),
          more |-> TRUE]

tryConsumeLoginAck(c) ==
  IF Len(c.buffer) = 0 THEN [c |-> c, more |-> FALSE]
  ELSE
    LET u == Head(c.buffer)
        ok == Opens(u, "loginAck", c.ssn)
        d == peekServerNonce(c, ok) IN
    IF ~ok THEN [c |-> Throw(d), more |-> FALSE]
    ELSE IF u.body = "invalid" THEN [c |-> Throw(d), more |-> FALSE]
    ELSE LET f == finishHandshake([d EXCEPT !.buffer = Tail(c.buffer), !.ssn = @ + 1]) IN
         [c |-> f, more |-> ~f.thrown]

tryConsumePayloadFrame(c) ==
  IF Len(c.buffer) = 0 THEN [c |-> c, more |-> FALSE]
  ELSE
    LET u == Head(c.buffer)
        ok == Opens(u, "frame", c.ssn) IN
    IF u.kind = "frame" /\ u.body = "short" THEN [c |-> Throw(c), more |-> FALSE]
    ELSE IF ~ok THEN [c |-> Throw(nextServerNonce(c, FALSE)), more |-> FALSE]
    ELSE LET p == handlePayloadContainer(
                    [nextServerNonce(c, TRUE) EXCEPT !.buffer = Tail(c.buffer)], u) IN
         [c |-> p, more |-> ~p.thrown]

RECURSIVE processBufferedData(_)
processBufferedData(c) ==
  LET r == CASE c.state = "waitingServerHello" -> tryConsumeServerHello(c)
             [] c.state = "waitingLoginAck" -> tryConsumeLoginAck(c)
             [] c.state = "ready" -> tryConsumePayloadFrame(c)
             [] OTHER -> [c |-> c, more |-> FALSE] IN
  IF r.more THEN processBufferedData(r.c) ELSE r.c

closeHandler(c) == [c EXCEPT !.state = "closed", !.buffer = <<>>]

handleProxyData(c, u) ==
  IF c.state = "closed" THEN c
  ELSE LET p == processBufferedData([c EXCEPT !.buffer = Append(@, u)]) IN
       IF p.thrown
       THEN closeHandler(Emit([p EXCEPT !.thrown = FALSE],
                              Event("error", NoId, NoMid, NoFlags)))
       ELSE p

startHandshake(c) ==
  IF c.state = "closed" THEN Throw(c)
  ELSE IF c.state # "idle" THEN c
  ELSE [c EXCEPT !.state = "waitingServerHello",
                 !.out = Append(@, ProxyFrame("clientHello", -1, NoId, NoMid, 0))]

(***************************************************************************)
(* MediatorClient: incoming-message dedupe                                 *)
(***************************************************************************)
INCOMING_MESSAGE_DEDUPE_PERSIST_EVERY == 1

\* Identities as they arrive on the wire; normalizeIdentity trims, upper-cases
\* and rejects what is not an 8-character id ("invalid": it throws).
RawIdentities == Identities \cup {"aaaaaaaa", "bad"}

\* this.identity.identity, the identity of the account itself.
OwnIdentity == "MMMMMMMM"

normalizeIdentity(raw) ==
  CASE raw \in Identities \cup {OwnIdentity} -> raw
    [] raw = "aaaaaaaa" -> "AAAAAAAA"
    [] OTHER -> "invalid"

buildIncomingMessageKey(identity, messageId) == <<normalizeIdentity(identity), messageId>>

\* The dedupe state as one value: the key set, the insertion order, the count
\* of adds not yet persisted, and the keys in the state file.
Dedupe == [keys |-> seenIncomingMessageKeys, order |-> seenIncomingMessageOrder,
           dirty |-> incomingMessageDedupeDirtyAdds, file |-> dedupeFile]

LastN(q, n) == IF Len(q) <= n THEN q ELSE SubSeq(q, Len(q) - n + 1, Len(q))

\* A variant of rememberIncomingMessageKey that never evicts.
rememberIncomingMessageKeyNoEvict(d, key) ==
  IF key \in d.keys THEN d
  ELSE [d EXCEPT !.keys = @ \cup {key}, !.order = Append(@, key)]

rememberIncomingMessageKey(d, key) ==
  IF key \in d.keys THEN d
  ELSE LET pushed == Append(d.order, key) IN
       IF Len(pushed) > MAX_INCOMING_MESSAGE_DEDUPE
       THEN [d EXCEPT !.keys = (@ \cup {key}) \ {Head(pushed)}, !.order = Tail(pushed)]
       ELSE [d EXCEPT !.keys = @ \cup {key}, !.order = pushed]

persistIncomingMessageDedupeState(d, force) ==
  IF ~force /\ d.dirty <= 0 THEN d
  ELSE [d EXCEPT !.file = LastN(d.order, MAX_INCOMING_MESSAGE_DEDUPE), !.dirty = 0]

\* The dedupe state of a client before loadIncomingMessageDedupeState.
NoDedupe(file) == [keys |-> {}, order |-> <<>>, dirty |-> 0, file |-> file]

\* The loop of loadIncomingMessageDedupeState over the keys of the file.
RECURSIVE loadKeys(_, _)
loadKeys(d, keys) ==
  IF keys = <<>> THEN d
  ELSE loadKeys(rememberIncomingMessageKey(d, Head(keys)), Tail(keys))

\* A variant of loadIncomingMessageDedupeState that reads the legacy format
\* (a bare array) only and finds no keys in the file persist writes.
loadIncomingMessageDedupeStateLegacyOnly(file) == NoDedupe(file)

\* loadIncomingMessageDedupeState: a missing or empty file holds no keys.
loadIncomingMessageDedupeState(file) == loadKeys(NoDedupe(file), file)

\* A variant of recordIncomingMessage that never finds the key.
recordIncomingMessageAlwaysFresh(d, identity, messageId) ==
  LET a == [rememberIncomingMessageKey(d, buildIncomingMessageKey(identity, messageId))
              EXCEPT !.dirty = @ + 1] IN
  [fresh |-> TRUE, d |-> persistIncomingMessageDedupeState(a, FALSE)]

\* [fresh |-> the boolean result, d |-> the dedupe state afterwards]
recordIncomingMessage(d, identity, messageId) ==
  LET key == buildIncomingMessageKey(identity, messageId) IN
  IF key \in d.keys THEN [fresh |-> FALSE, d |-> d]
  ELSE LET r == rememberIncomingMessageKey(d, key)
           a == [r EXCEPT !.dirty = @ + 1] IN
       [fresh |-> TRUE,
        d |-> IF a.dirty >= INCOMING_MESSAGE_DEDUPE_PERSIST_EVERY
              THEN persistIncomingMessageDedupeState(a, FALSE) ELSE a]

(***************************************************************************)
(* MediatorClient: reflected frames                                        *)
(***************************************************************************)
\* Reflected ids are given by the mediator, one per frame; the first one.
FirstReflectedId == 1001

\* A Reflected frame: its header fields, whether the envelope decrypts under
\* dgrk, and the decoded envelope (sender and message id where it has them).
ReflectedFrame(rid, flags, ok, content, sender, mid) ==
  [rid |-> rid, flags |-> flags, ok |-> ok, content |-> content, sender |-> sender,
   mid |-> mid]

\* The frames that may arrive with reflected id r.
ReflectedFrames(r) ==
  {ReflectedFrame(r, fl, FALSE, "other", NoId, NoMid) : fl \in {0, 1}}
  \cup {ReflectedFrame(r, fl, TRUE, "other", NoId, NoMid) : fl \in {0, 1, 2, 3}}
  \cup {ReflectedFrame(r, fl, TRUE, "outgoingMessage", NoId, 1) : fl \in {0, 1}}
  \cup {ReflectedFrame(r, fl, TRUE, "incomingMessage", i, m) :
          fl \in {0, 1}, i \in RawIdentities, m \in MsgIds \cup {NoMid}}

\* A surfaced envelope, as the observer records it: its content, the sender as
\* normalizeIdentity gives it, the message id, and the path it came by.
Envelope(f, via) ==
  [content |-> f.content,
   sender |-> IF f.sender = NoId THEN NoId ELSE normalizeIdentity(f.sender),
   mid |-> f.mid, via |-> via]

ReflectedAck(reflectedId) == Frame("REFLECTED_ACK", "", -1, NoId, NoMid, reflectedId)

isEphemeral(f) == f.flags % 2 = 1

\* A variant of the try block that records and checks outgoingMessage envelopes
\* in the dedupe set as well.
handleReflectedEnvelopeDedupeOutgoing(d, f) ==
  IF f.ok /\ f.content = "outgoingMessage" /\ f.mid # NoMid
  THEN LET key == <<NoId, f.mid>> IN
       IF key \in d.keys THEN [d |-> d, env |-> <<>>, dup |-> TRUE]
       ELSE [d |-> persistIncomingMessageDedupeState(
                     [rememberIncomingMessageKey(d, key) EXCEPT !.dirty = @ + 1], FALSE),
             env |-> <<Envelope(f, "reflected")>>, dup |-> FALSE]
  ELSE IF ~f.ok THEN [d |-> d, env |-> <<>>, dup |-> FALSE]
  ELSE IF f.content = "incomingMessage"
  THEN IF normalizeIdentity(f.sender) = "invalid" THEN [d |-> d, env |-> <<>>, dup |-> FALSE]
       ELSE IF f.mid = NoMid
       THEN [d |-> d, env |-> <<Envelope(f, "reflected")>>, dup |-> FALSE]
       ELSE LET r == recordIncomingMessage(d, f.sender, f.mid) IN
            IF ~r.fresh THEN [d |-> r.d, env |-> <<>>, dup |-> TRUE]
            ELSE [d |-> r.d, env |-> <<Envelope(f, "reflected")>>, dup |-> FALSE]
  ELSE [d |-> d, env |-> <<Envelope(f, "reflected")>>, dup |-> FALSE]

\* The try block of handleReflected: [d |-> dedupe state, env |-> the envelopes
\* surfaced (none or one), dup |-> skipped as a duplicate].
handleReflectedEnvelope(d, f) ==
  IF ~f.ok THEN [d |-> d, env |-> <<>>, dup |-> FALSE]
  ELSE IF f.content = "incomingMessage"
  THEN IF normalizeIdentity(f.sender) = "invalid" THEN [d |-> d, env |-> <<>>, dup |-> FALSE]
       ELSE IF f.mid = NoMid
       THEN [d |-> d, env |-> <<Envelope(f, "reflected")>>, dup |-> FALSE]
       ELSE LET r == recordIncomingMessage(d, f.sender, f.mid) IN
            IF ~r.fresh THEN [d |-> r.d, env |-> <<>>, dup |-> TRUE]
            ELSE [d |-> r.d, env |-> <<Envelope(f, "reflected")>>, dup |-> FALSE]
  ELSE [d |-> d, env |-> <<Envelope(f, "reflected")>>, dup |-> FALSE]

\* A variant of the finally block that acknowledges ephemeral frames too.
handleReflectedAckAlways(f) == <<ReflectedAck(f.rid)>>

\* The finally block of handleReflected: the frames sent.
handleReflectedAck(f) ==
  IF ~isEphemeral(f) THEN <<ReflectedAck(f.rid)>> ELSE <<>>

\* A variant of handleReflected that acknowledges inside the try block, after
\* the envelope was surfaced.
handleReflectedAckInTry(d, f) ==
  LET r == handleReflectedEnvelope(d, f) IN
  [d |-> r.d, env |-> r.env, dup |-> r.dup,
   out |-> IF r.env = <<>> THEN <<>> ELSE handleReflectedAck(f)]

\* A variant of handleReflected in which a failed decryption leaves the handler
\* before the acknowledgement.
handleReflectedFailureLeaves(d, f) ==
  LET r == handleReflectedEnvelope(d, f) IN
  [d |-> r.d, env |-> r.env, dup |-> r.dup,
   out |-> IF f.ok THEN handleReflectedAck(f) ELSE <<>>]

handleReflected(d, f) ==
  LET r == handleReflectedEnvelope(d, f) IN
  [d |-> r.d, env |-> r.env, dup |-> r.dup, out |-> handleReflectedAck(f)]

SetDedupe(d) ==
  /\ seenIncomingMessageKeys' = d.keys
  /\ seenIncomingMessageOrder' = d.order
  /\ incomingMessageDedupeDirtyAdds' = d.dirty
  /\ dedupeFile' = d.file

NoneReflected == [plain |-> {}, total |-> 0, eph |-> 0, dup |-> 0, bad |-> 0]

RxTotal == rxReflected.total

NextReflectedId == FirstReflectedId + RxTotal

Received(f, dup) ==
  [plain |-> IF isEphemeral(f) THEN rxReflected.plain ELSE rxReflected.plain \cup {f.rid},
   total |-> rxReflected.total + 1,
   eph |-> IF isEphemeral(f) THEN rxReflected.eph + 1 ELSE rxReflected.eph,
   dup |-> IF dup THEN rxReflected.dup + 1 ELSE rxReflected.dup,
   bad |-> IF f.ok THEN rxReflected.bad ELSE rxReflected.bad + 1]

\* ws.on('message') -> handleFrame -> case D2M.REFLECTED
HandleReflectedFrame(f) ==
  /\ proc = "up"
  /\ sock = "open" /\ ws = "sock"
  /\ RxTotal < MaxRx
  /\ LET r == handleReflected(Dedupe, f) IN
       /\ SetDedupe(r.d)
       /\ surfaced' = surfaced \o r.env
       /\ wsSent' = wsSent \o r.out
       /\ rxReflected' = Received(f, r.dup)
  /\ UNCHANGED <<connVars, csp, ackVars, cspObs, featureVars, deviceVars, accountVars>>

HandleReflected == \E f \in ReflectedFrames(NextReflectedId) : HandleReflectedFrame(f)

(***************************************************************************)
(* MediatorClient: pending acknowledgement tables                          *)
(***************************************************************************)
NoCsp == [state |-> "none", buffer |-> <<>>, csn |-> 1, ssn |-> 1]

\* An empty pending table; entries are [by |-> the waiting caller, ttl |-> time
\* left on the entry's timer].
NoPending == [k \in {} |-> [by |-> 0, ttl |-> 0]]

Put(table, k, v) == [x \in DOMAIN table \cup {k} |-> IF x = k THEN v ELSE table[x]]

Drop(table, k) == [x \in DOMAIN table \ {k} |-> table[x]]

Owners(table) == {table[k].by : k \in DOMAIN table}

\* pending.reject(error) for every entry of the reflect table.
rejectAllPendingReflectAcks(cs, table) ==
  [c \in Callers |-> IF c \in Owners(table) THEN [cs[c] EXCEPT !.reflectP = "rejected"]
                     ELSE cs[c]]

\* A variant of rejectAllPendingOutgoingMessageAcks that rejects nothing.
rejectNoPendingOutgoingMessageAcks(cs, table) == cs

\* pending.reject(error) for every entry of the outgoing-message table.
rejectAllPendingOutgoingMessageAcks(cs, table) ==
  [c \in Callers |-> IF c \in Owners(table) THEN [cs[c] EXCEPT !.cspP = "rejected"]
                     ELSE cs[c]]

\* The captured CspHandler of every caller is closed with this.csp.
closeCaptured(cs) == [c \in Callers |-> [cs[c] EXCEPT !.cspOk = FALSE]]

(***************************************************************************)
(* MediatorClient: connection lifecycle                                    *)
(***************************************************************************)
\* connect(): reset leader and CSP, reject the pending CSP acks, open a socket.
ClientConnect ==
  /\ proc = "up"
  /\ sock \in {"none", "closed"}
  /\ leader' = FALSE
  /\ csp' = NoCsp
  /\ calls' = closeCaptured(rejectAllPendingOutgoingMessageAcks(calls,
                                                                 pendingOutgoingMessageAcks))
  /\ pendingOutgoingMessageAcks' = NoPending
  /\ ws' = "sock"
  /\ sock' = "connecting"
  /\ wsSent' = <<>>
  /\ rxReflected' = [rxReflected EXCEPT !.plain = {}]
  /\ UNCHANGED <<pendingReflectAcks, nextReflectId, waiters, dedupeVars, surfaced, cspObs, featureVars,
                 deviceVars>>

\* connect() up to its first await (the protobuf types are loaded before the
\* socket is created).
ClientConnectBegins ==
  /\ proc = "up"
  /\ leader' = FALSE
  /\ csp' = NoCsp
  /\ calls' = closeCaptured(rejectAllPendingOutgoingMessageAcks(calls,
                                                                 pendingOutgoingMessageAcks))
  /\ pendingOutgoingMessageAcks' = NoPending
  /\ UNCHANGED <<ws, sock, wsSent, pendingReflectAcks, nextReflectId, waiters, dedupeVars,
                 reflVars, cspObs, featureVars, deviceVars>>

\* connect() after its awaits: the socket is created and the promise returned.
ClientConnectOpensSocket ==
  /\ proc = "up"
  /\ sock \in {"none", "closed"}
  /\ ws' = "sock"
  /\ sock' = "connecting"
  /\ wsSent' = <<>>
  /\ rxReflected' = [rxReflected EXCEPT !.plain = {}]
  /\ UNCHANGED <<leader, csp, ackVars, dedupeVars, surfaced, cspObs, featureVars, deviceVars>>

\* connect() called on a client that no account owns.
Connect == ClientConnect /\ UNCHANGED accountVars

\* ws.on('open')
WsOpen ==
  /\ proc = "up"
  /\ sock = "connecting"
  /\ sock' = "open"
  /\ UNCHANGED <<ws, leader, csp, ackVars, dedupeVars, wsSent, reflVars, cspObs, featureVars, deviceVars, accountVars>>

\* A variant of the 'close' handler that leaves the CspHandler as it is.
WsCloseKeepCsp ==
  /\ sock \in {"connecting", "open", "closing"}
  /\ sock' = "closed"
  /\ leader' = FALSE
  /\ calls' = rejectAllPendingOutgoingMessageAcks(
                rejectAllPendingReflectAcks(calls, pendingReflectAcks),
                pendingOutgoingMessageAcks)
  /\ pendingReflectAcks' = NoPending
  /\ pendingOutgoingMessageAcks' = NoPending
  /\ UNCHANGED <<ws, csp, nextReflectId, waiters, dedupeVars, wsSent, reflVars, cspObs, featureVars, deviceVars, accountVars>>

\* ws.on('close'): the socket closed, by the peer or after disconnect().
ClientWsClose ==
  /\ proc = "up"
  /\ sock \in {"connecting", "open", "closing"}
  /\ sock' = "closed"
  /\ leader' = FALSE
  /\ csp' = NoCsp
  /\ calls' = closeCaptured(
                rejectAllPendingOutgoingMessageAcks(
                  rejectAllPendingReflectAcks(calls, pendingReflectAcks),
                  pendingOutgoingMessageAcks))
  /\ pendingReflectAcks' = NoPending
  /\ pendingOutgoingMessageAcks' = NoPending
  /\ UNCHANGED <<ws, nextReflectId, waiters, dedupeVars, wsSent, reflVars, cspObs, featureVars, deviceVars>>

\* The socket of a client that no account owns closed.
WsClose == ClientWsClose /\ UNCHANGED accountVars

\* disconnect()
ClientDisconnect ==
  /\ proc = "up"
  /\ csp' = NoCsp
  /\ calls' = closeCaptured(
                rejectAllPendingOutgoingMessageAcks(
                  rejectAllPendingReflectAcks(calls, pendingReflectAcks),
                  pendingOutgoingMessageAcks))
  /\ pendingReflectAcks' = NoPending
  /\ pendingOutgoingMessageAcks' = NoPending
  /\ SetDedupe(persistIncomingMessageDedupeState(Dedupe, TRUE))
  /\ IF ws = "sock"
     THEN /\ sock' = IF sock \in {"connecting", "open"} THEN "closing" ELSE sock
          /\ ws' = "null"
     ELSE UNCHANGED <<ws, sock>>
  /\ UNCHANGED <<leader, nextReflectId, waiters, wsSent, reflVars, cspObs, featureVars, deviceVars>>

\* disconnect() called on a client that no account owns.
Disconnect == ClientDisconnect /\ UNCHANGED accountVars

IdleCall == [pc |-> "idle", to |-> NoId, mid |-> NoMid, rid |-> 0,
             reflectP |-> "none", cspP |-> "none", cspOk |-> FALSE]
IdleWaiter == [st |-> "idle", kind |-> "none", ttl |-> 0]
\* new RendezvousCipher(key, pid, initialSn); the path id is always 1.
RendezvousCipher(key, initialSn) == [key |-> key, sn |-> initialSn]
\* A cipher variable that is not assigned yet.
NoCipher == RendezvousCipher("none", 0)

\* Before connect(): no socket, no closure.
NoRdv == [state |-> "none", sock |-> "none", promise |-> "none",
          ridEncrypt |-> NoCipher, rrdDecrypt |-> NoCipher,
          ridtkEncrypt |-> NoCipher, rrdtkDecrypt |-> NoCipher,
          transportKeys |-> FALSE, ulpQueue |-> <<>>, sent |-> <<>>, nonces |-> <<>>,
          rx |-> 0, failures |-> 0, afterFailure |-> 0, thrown |-> FALSE]

\* main() not started: pc is main's position, state / blobs / handled are
\* runDeviceJoin's locals and the contents it took, disk the files written.
NoLink == [pc |-> "start", state |-> "wait-begin", blobs |-> 0, handled |-> <<>>,
           groups |-> 0, disk |-> {}]

\* groupEvolvingReplySessions has no entry for the session key.
NoSession == [anchor |-> NoMid, lastText |-> <<>>, age |-> 0]

\* One call of sendGroupEvolvingReplyText: a link of the partial dispatch chain
\* or the call deliver makes. status: "none", "queued" (its turn has not
\* come), "draining" (deliver awaits the chain), "running" (a send is awaited),
\* "settled"; stage is the send awaited, nextText the text it carries.
ReplyOp(source, text, kind, status) ==
  [source |-> source, text |-> text, kind |-> kind, status |-> status, stage |-> "none",
   nextText |-> <<>>, waited |-> 0]

NoReplyOp == ReplyOp("none", <<>>, "none", "none")

\* No inbound message is being handled.
NoReply == [pc |-> "idle", streaming |-> FALSE, minCharsDelta |-> 1, session |-> NoSession,
            lastGroupPartialText |-> <<>>, sincePartial |-> 1, groupFinalized |-> FALSE,
            chain |-> <<>>, deliver |-> NoReplyOp, log |-> <<>>, nextId |-> 1, chunks |-> 0]

\* directTypingSessions: per peer whether an entry exists, its two timers and
\* its active flag.
TypingPeers == {"AAAAAAAA"}
NoTypingSession == [exists |-> FALSE, refreshTimer |-> FALSE, stopTimer |-> FALSE, active |-> FALSE]

\* No typing session, no indicator send under way; atStop is the set of peers
\* that had an active session when stop() was called, finalSent the peers whose
\* stopped-typing indicator of stop() went out.
NoTyping == [sessions |-> [p \in TypingPeers |-> NoTypingSession], pending |-> {},
             atStop |-> {}, finalSent |-> {}]

\* The plugin has sent nothing and the connection has received nothing.
NoAgent == [sentMessageIds |-> {}, dry |-> FALSE, elapsed |-> 0, forwarded |-> {}]

\* No group send yet: plans are the recipients of the fan-out in its order,
\* nonces the prepared nonces, index the loop's position, drawn the number of
\* random nonces drawn so far; envelope holds the nonces of the envelope given
\* to reflectOutgoingMessage (reflected: one was given), containers the
\* recipient and nonce of every payload handed to csp.sendContainer.
IdleGroup == [pc |-> "idle", kind |-> "none", plans |-> <<>>, nonces |-> <<>>, index |-> 0,
              drawn |-> 0, mid |-> NoMid, envelope |-> <<>>, reflected |-> FALSE,
              containers |-> <<>>]

(***************************************************************************)
(* The process: a crash while the dedupe file is written, and a restart    *)
(***************************************************************************)
\* The process is killed inside fs.writeFileSync of
\* persistIncomingMessageDedupeState, called by recordIncomingMessage for a
\* new key: writeFileSync opens the state file truncating it and then writes,
\* so the file is left empty (a partly written file does not parse and loads
\* like the empty one) or, when the data was already written, complete.
CrashInPersistFor(f) ==
  /\ proc = "up"
  /\ sock = "open" /\ ws = "sock"
  /\ RxTotal < MaxRx
  /\ f.ok /\ f.content = "incomingMessage" /\ f.mid # NoMid
  /\ normalizeIdentity(f.sender) # "invalid"
  /\ buildIncomingMessageKey(f.sender, f.mid) \notin seenIncomingMessageKeys
  /\ LET r == rememberIncomingMessageKey(Dedupe, buildIncomingMessageKey(f.sender, f.mid)) IN
       /\ seenIncomingMessageKeys' = r.keys
       /\ seenIncomingMessageOrder' = r.order
       /\ incomingMessageDedupeDirtyAdds' = r.dirty + 1
       /\ dedupeFile' \in {<<>>, LastN(r.order, MAX_INCOMING_MESSAGE_DEDUPE)}
  /\ proc' = "down"
  /\ rxReflected' = [rxReflected EXCEPT !.total = @ + 1]
  /\ UNCHANGED <<connVars, csp, ackVars, wsSent, surfaced, cspObs, featureVars, isFirstConnection,
                 deviceIdSaved, accountVars>>

CrashInPersist == \E f \in ReflectedFrames(NextReflectedId) : CrashInPersistFor(f)

\* new MediatorClient(...) on the same data directory, in a new process or
\* after disconnect(): the constructor sets the fields and loads the dedupe
\* state file.
Restart ==
  /\ proc = "down" \/ ws = "null"
  /\ proc' = "up"
  /\ ws' = "null"
  /\ sock' = "none"
  /\ leader' = FALSE
  /\ csp' = NoCsp
  /\ pendingReflectAcks' = NoPending
  /\ pendingOutgoingMessageAcks' = NoPending
  /\ nextReflectId' = 1
  /\ calls' = [c \in Callers |-> IdleCall]
  /\ waiters' = [w \in WaiterIds |-> IdleWaiter]
  /\ isFirstConnection' = ~deviceIdSaved
  /\ SetDedupe(loadIncomingMessageDedupeState(dedupeFile))
  /\ wsSent' = <<>>
  /\ rxReflected' = [rxReflected EXCEPT !.plain = {}]
  /\ UNCHANGED <<surfaced, cspObs, featureVars, deviceIdSaved, accountVars>>

(***************************************************************************)
(* Initial state: a MediatorClient after construction, nothing on disk     *)
(***************************************************************************)
InitFields ==
  /\ ws = "null"
  /\ sock = "none"
  /\ leader = FALSE
  /\ pendingReflectAcks = NoPending
  /\ pendingOutgoingMessageAcks = NoPending
  /\ nextReflectId = 1
  /\ seenIncomingMessageKeys = {}
  /\ seenIncomingMessageOrder = <<>>
  /\ incomingMessageDedupeDirtyAdds = 0
  /\ dedupeFile = <<>>
  /\ calls = [c \in Callers |-> IdleCall]
  /\ waiters = [w \in WaiterIds |-> IdleWaiter]
  /\ wsSent = <<>>
  /\ surfaced = <<>>
  /\ rxReflected = NoneReflected
  /\ cspEvents = <<>>
  /\ nonceLog = <<>>
  /\ isFirstConnection = TRUE
  /\ deviceIdSaved = FALSE
  /\ proc = "up"
  /\ account = "idle"
  /\ stopped = FALSE
  /\ reconnectTimer = NoTimer
  /\ reconnectInFlight = FALSE
  /\ connectP = "none"
  /\ group = IdleGroup
  /\ rdv = NoRdv
  /\ link = NoLink
  /\ reply = NoReply
  /\ agent = NoAgent
  /\ activeClient = FALSE
  /\ typing = NoTyping
  /\ cspIn = <<>>

InitMediator == InitFields /\ csp = NoCsp

(***************************************************************************)
(* Spec: reflected frames and dedupe on a mediator connection              *)
(***************************************************************************)
Init == InitMediator

Next ==
  \/ Connect
  \/ WsOpen
  \/ WsClose
  \/ HandleReflected

Spec == Init /\ [][Next]_vars

(***************************************************************************)
(* SpecDedupe: the dedupe set and its file over disconnects, crashes and   *)
(* restarts                                                                *)
(***************************************************************************)
\* A Reflected frame arrives whose envelope reaches the dedupe set: a decoded
\* incomingMessage with a sender identity and a message id.
HandleReflectedIncoming ==
  \E f \in {g \in ReflectedFrames(NextReflectedId) :
              /\ g.ok /\ g.content = "incomingMessage" /\ g.mid # NoMid
              /\ normalizeIdentity(g.sender) # "invalid"} :
    HandleReflectedFrame(f)

NextDedupe ==
  \/ Connect
  \/ WsOpen
  \/ HandleReflectedIncoming
  \/ Disconnect
  \/ CrashInPersist
  \/ Restart

SpecDedupe == Init /\ [][NextDedupe]_vars

(***************************************************************************)
(* SpecCsp: the CSP handler on its own                                     *)
(***************************************************************************)
SeqRoom == csp.csn <= MaxSeq /\ csp.ssn <= MaxSeq

mediatorVars == <<ws, leader, pendingReflectAcks, pendingOutgoingMessageAcks, nextReflectId,
                  sock, calls, waiters, dedupeVars, reflVars, deviceVars, accountVars,
                  featureVars>>

Apply(c) ==
  /\ csp' = Handler(c)
  /\ wsSent' = wsSent \o c.out
  /\ cspEvents' = cspEvents \o c.ev
  /\ nonceLog' = nonceLog \o c.nl
  /\ UNCHANGED mediatorVars

InitCsp == InitFields /\ csp = NewCspHandler

\* startHandshake() may be called in any state: it throws on a closed handler
\* and returns at once on one that has left Idle.
CspStartHandshake ==
  /\ Apply(startHandshake(Call(csp)))

CspHandleProxyData ==
  /\ SeqRoom
  /\ Len(csp.buffer) < MaxBuffer
  /\ \E u \in ProxyUnits(csp.ssn) : Apply(handleProxyData(Call(csp), u))

\* sendContainer() may be called in any state: it throws unless Ready.
CspSendContainer ==
  /\ SeqRoom
  /\ \E i \in Identities, m \in MsgIds :
       Apply(sendContainer(Call(csp), CSP_CONTAINER_OUTGOING_MESSAGE, i, m))

CspClose ==
  /\ Apply(closeHandler(Call(csp)))

NextCsp ==
  \/ CspStartHandshake
  \/ CspHandleProxyData
  \/ CspSendContainer
  \/ CspClose

SpecCsp == InitCsp /\ [][NextCsp]_vars

(***************************************************************************)
(* MediatorClient: sending, acknowledgements and timers                    *)
(* Time is counted in units of 5 s.                                        *)
(***************************************************************************)
REFLECT_ACK_TIMEOUT_MS == 3
CSP_OUTGOING_ACK_TIMEOUT_MS == 4
\* The timeoutMs arguments of waitForLeaderAndCsp / waitForCspReady.
WaitTimeouts == {2}
\* The recipients of the messages sent.
Recipients == {"AAAAAAAA"}

Reflect(reflectId, to, mid) == Frame("REFLECT", "", -1, to, mid, reflectId)

\* The part of the client a send operation reads and writes, as one value.
Mediator ==
  [calls |-> calls, reflectAcks |-> pendingReflectAcks,
   outgoingAcks |-> pendingOutgoingMessageAcks, next |-> nextReflectId, csp |-> csp,
   sent |-> wsSent, waiters |-> waiters, thrown |-> FALSE]

SetMediator(m) ==
  /\ calls' = m.calls
  /\ pendingReflectAcks' = m.reflectAcks
  /\ pendingOutgoingMessageAcks' = m.outgoingAcks
  /\ nextReflectId' = m.next
  /\ csp' = m.csp
  /\ wsSent' = m.sent
  /\ waiters' = m.waiters

\* WebSocket.send: throws while connecting, is dropped once closing or closed.
wsSend(m, frame) ==
  IF sock = "connecting" THEN [m EXCEPT !.thrown = TRUE]
  ELSE IF sock = "open" THEN [m EXCEPT !.sent = Append(@, frame)]
  ELSE m

\* The sendProxyData callback given to the CspHandler.
sendProxyData(m, frame) ==
  IF ws = "null" THEN [m EXCEPT !.thrown = TRUE] ELSE wsSend(m, frame)

RECURSIVE sendAllProxyData(_, _)
sendAllProxyData(m, frames) ==
  IF frames = <<>> \/ m.thrown THEN m
  ELSE sendAllProxyData(sendProxyData(m, Head(frames)), Tail(frames))

\* A variant of allocateReflectId's loop that returns the counter's value without
\* looking at the pending table.
firstFreeReflectIdUnchecked(candidate, table) == candidate

RECURSIVE firstFreeReflectId(_, _)
firstFreeReflectId(candidate, table) ==
  IF candidate \in DOMAIN table
  THEN firstFreeReflectId((candidate + 1) % ReflectIdSpace, table)
  ELSE candidate

\* [id |-> the id returned, m |-> the client afterwards]
allocateReflectId(m) ==
  LET id == firstFreeReflectId(m.next % ReflectIdSpace, m.reflectAcks) IN
  [id |-> id, m |-> [m EXCEPT !.next = (id + 1) % ReflectIdSpace]]

createReflectAckPromise(m, c, reflectId) ==
  [m EXCEPT !.reflectAcks = Put(@, reflectId, [by |-> c, ttl |-> REFLECT_ACK_TIMEOUT_MS]),
            !.calls[c].reflectP = "pending",
            !.calls[c].rid = reflectId]

rejectPendingReflectAck(m, reflectId) ==
  IF reflectId \notin DOMAIN m.reflectAcks THEN m
  ELSE [m EXCEPT !.reflectAcks = Drop(@, reflectId),
                 !.calls[m.reflectAcks[reflectId].by].reflectP = "rejected"]

\* A variant of handleReflectAck that resolves every pending entry whatever the
\* acknowledged id is.
handleReflectAckEveryEntry(m, reflectId) ==
  [m EXCEPT !.reflectAcks = NoPending,
            !.calls = [c \in Callers |->
                         IF c \in Owners(m.reflectAcks)
                         THEN [@[c] EXCEPT !.reflectP = "resolved"] ELSE @[c]]]

handleReflectAck(m, reflectId) ==
  IF reflectId \notin DOMAIN m.reflectAcks THEN m
  ELSE [m EXCEPT !.reflectAcks = Drop(@, reflectId),
                 !.calls[m.reflectAcks[reflectId].by].reflectP = "resolved"]

\* The setTimeout callback of createReflectAckPromise.
reflectAckTimedOut(m, reflectId) ==
  [m EXCEPT !.reflectAcks = Drop(@, reflectId),
            !.calls[m.reflectAcks[reflectId].by].reflectP = "rejected"]

reflectOutgoingMessage(m, c, to, mid) ==
  IF ws = "null" THEN [m EXCEPT !.thrown = TRUE]
  ELSE LET a == allocateReflectId(m)
           p == createReflectAckPromise(a.m, c, a.id)
           s == wsSend(p, Reflect(a.id, to, mid)) IN
       IF s.thrown THEN rejectPendingReflectAck(s, a.id) ELSE s

buildOutgoingAckKey(identity, messageId) == <<normalizeIdentity(identity), messageId>>

\* A variant of createOutgoingMessageAckPromise that overwrites an existing entry
\* without rejecting its waiter.
createOutgoingMessageAckPromiseOverwrite(m, c, identity, messageId) ==
  [m EXCEPT !.outgoingAcks = Put(@, buildOutgoingAckKey(identity, messageId),
                                 [by |-> c, ttl |-> CSP_OUTGOING_ACK_TIMEOUT_MS]),
            !.calls[c].cspP = "pending"]

createOutgoingMessageAckPromise(m, c, identity, messageId) ==
  LET key == buildOutgoingAckKey(identity, messageId)
      e == IF key \in DOMAIN m.outgoingAcks
           THEN [m EXCEPT !.calls[m.outgoingAcks[key].by].cspP = "rejected"]
           ELSE m IN
  [e EXCEPT !.outgoingAcks = Put(@, key, [by |-> c, ttl |-> CSP_OUTGOING_ACK_TIMEOUT_MS]),
            !.calls[c].cspP = "pending"]

resolvePendingOutgoingMessageAck(m, identity, messageId) ==
  LET key == buildOutgoingAckKey(identity, messageId) IN
  IF key \notin DOMAIN m.outgoingAcks THEN m
  ELSE [m EXCEPT !.outgoingAcks = Drop(@, key),
                 !.calls[m.outgoingAcks[key].by].cspP = "resolved"]

rejectPendingOutgoingMessageAck(m, identity, messageId) ==
  LET key == buildOutgoingAckKey(identity, messageId) IN
  IF key \notin DOMAIN m.outgoingAcks THEN m
  ELSE [m EXCEPT !.outgoingAcks = Drop(@, key),
                 !.calls[m.outgoingAcks[key].by].cspP = "rejected"]

\* A variant of the outgoing-ack timer that forgets the entry without rejecting.
outgoingMessageAckTimedOutSilently(m, key) ==
  [m EXCEPT !.outgoingAcks = Drop(@, key)]

\* The setTimeout callback of createOutgoingMessageAckPromise.
outgoingMessageAckTimedOut(m, key) ==
  [m EXCEPT !.outgoingAcks = Drop(@, key),
            !.calls[m.outgoingAcks[key].by].cspP = "rejected"]

\* The operation of caller c has thrown / has returned; the reflect id and the
\* captured CspHandler were its locals.
Failed(m, c) ==
  [m EXCEPT !.calls[c].pc = "failed", !.calls[c].rid = 0, !.calls[c].cspOk = FALSE]

Done(m, c) ==
  [m EXCEPT !.calls[c].pc = "done", !.calls[c].rid = 0, !.calls[c].cspOk = FALSE]

\* sendTextMessageViaReflect up to its await.
sendTextMessageViaReflect(m, c, to, mid) ==
  LET n == [m EXCEPT !.calls[c].to = to, !.calls[c].mid = mid]
      r == reflectOutgoingMessage(n, c, to, mid) IN
  IF r.thrown THEN Failed(r, c) ELSE [r EXCEPT !.calls[c].pc = "awaitReflectOnly"]

\* sendTextMessage up to `await this.getContactPublicKey`.
sendTextMessage(m, c, to, mid) ==
  IF ~leader \/ m.csp.state # "ready" THEN sendTextMessageViaReflect(m, c, to, mid)
  ELSE IF ws = "null" THEN Failed([m EXCEPT !.calls[c].to = to], c)
  ELSE [m EXCEPT !.calls[c].to = to, !.calls[c].cspOk = TRUE, !.calls[c].pc = "awaitKey"]

\* A variant of sendTextMessage's second part that hands the container to CSP
\* before reflecting.
sendTextMessageContainerFirst(m, c, mid) ==
  LET to == m.calls[c].to
      n == [m EXCEPT !.calls[c].mid = mid]
      p == createOutgoingMessageAckPromise(n, c, to, mid)
      k == sendContainer(Call(p.csp), CSP_CONTAINER_OUTGOING_MESSAGE, to, mid)
      s == sendAllProxyData([p EXCEPT !.csp = Handler(k), !.thrown = k.thrown], k.out)
      r == IF s.thrown THEN s ELSE reflectOutgoingMessage(s, c, to, mid) IN
  IF r.thrown THEN Failed(rejectPendingOutgoingMessageAck(r, to, mid), c)
  ELSE [r EXCEPT !.calls[c].pc = "awaitCspAck"]

\* sendTextMessage from the key up to `await this.reflectOutgoingMessage`.
sendTextMessageWithKey(m, c, mid) ==
  LET to == m.calls[c].to
      n == [m EXCEPT !.calls[c].mid = mid]
      p == createOutgoingMessageAckPromise(n, c, to, mid)
      r == reflectOutgoingMessage(p, c, to, mid) IN
  IF r.thrown THEN Failed(rejectPendingOutgoingMessageAck(r, to, mid), c)
  ELSE [r EXCEPT !.calls[c].pc = "awaitReflect"]

\* sendTextMessage from the reflect ack up to `await cspAckPromise`; the
\* container goes to the CspHandler captured before the awaits.
sendTextMessageReflected(m, c) ==
  LET to == m.calls[c].to
      mid == m.calls[c].mid IN
  IF m.calls[c].reflectP = "rejected" \/ ~m.calls[c].cspOk
  THEN Failed(rejectPendingOutgoingMessageAck(m, to, mid), c)
  ELSE LET k == sendContainer(Call(m.csp), CSP_CONTAINER_OUTGOING_MESSAGE, to, mid)
           s == sendAllProxyData([m EXCEPT !.csp = Handler(k), !.thrown = k.thrown], k.out) IN
       IF s.thrown THEN Failed(rejectPendingOutgoingMessageAck(s, to, mid), c)
       ELSE [s EXCEPT !.calls[c].pc = "awaitCspAck"]

\* sendTextMessage after `await cspAckPromise`.
sendTextMessageAcked(m, c) ==
  IF m.calls[c].cspP = "rejected"
  THEN Failed(rejectPendingOutgoingMessageAck(m, m.calls[c].to, m.calls[c].mid), c)
  ELSE Done(m, c)

\* sendTextMessageViaReflect after its await.
sendTextMessageViaReflectAcked(m, c) ==
  IF m.calls[c].reflectP = "rejected" THEN Failed(m, c)
  ELSE Done(m, c)

sendVars == <<connVars, dedupeVars, reflVars, cspObs, featureVars, deviceVars, accountVars>>

\* createMessageTimestamps draws a random 64-bit message id; only whether two
\* ids are equal matters, so the first id drawn is the first of MsgIds.
DrawnMsgIds ==
  IF \A c \in Callers : calls[c].mid = NoMid THEN {CHOOSE x \in MsgIds : \A y \in MsgIds : x <= y}
  ELSE MsgIds

\* A caller invokes sendTextMessage(to, text).
SendTextMessage(c) ==
  /\ calls[c].pc = "idle"
  /\ \E to \in Recipients, mid \in DrawnMsgIds :
       SetMediator(sendTextMessage(Mediator, c, to, mid))
  /\ UNCHANGED sendVars

\* getContactPublicKey settles: with the key (the message id is drawn next) or
\* with a failed directory lookup.
GetContactPublicKeySettles(c) ==
  /\ calls[c].pc = "awaitKey"
  /\ \/ \E mid \in DrawnMsgIds : SetMediator(sendTextMessageWithKey(Mediator, c, mid))
     \/ SetMediator(Failed(Mediator, c))
  /\ UNCHANGED sendVars

\* The continuation of a send operation after an awaited promise settled.
ResumeSend(c) ==
  /\ \/ /\ calls[c].pc = "awaitReflect" /\ calls[c].reflectP # "pending"
        /\ SetMediator(sendTextMessageReflected(Mediator, c))
     \/ /\ calls[c].pc = "awaitCspAck" /\ calls[c].cspP # "pending"
        /\ SetMediator(sendTextMessageAcked(Mediator, c))
     \/ /\ calls[c].pc = "awaitReflectOnly" /\ calls[c].reflectP # "pending"
        /\ SetMediator(sendTextMessageViaReflectAcked(Mediator, c))
  /\ UNCHANGED sendVars

\* ws.on('message') -> handleFrame -> case D2M.REFLECT_ACK
HandleReflectAckFrame(reflectId) ==
  /\ sock = "open"
  /\ SetMediator(handleReflectAck(Mediator, reflectId))
  /\ UNCHANGED sendVars

HandleReflectAck ==
  \E reflectId \in DOMAIN pendingReflectAcks \cup {nextReflectId} :
    HandleReflectAckFrame(reflectId)

\* startCspProxyHandshake
startCspProxyHandshake(m) ==
  IF m.csp.state # "none"
  THEN LET k == startHandshake(Call(m.csp)) IN
       sendAllProxyData([m EXCEPT !.csp = Handler(k), !.thrown = k.thrown], k.out)
  ELSE IF ws = "null" THEN [m EXCEPT !.thrown = TRUE]
  ELSE LET k == startHandshake(Call(NewCspHandler)) IN
       sendAllProxyData([m EXCEPT !.csp = Handler(k), !.calls = closeCaptured(@)], k.out)

\* ws.on('message') -> handleFrame -> case D2M.ROLE_PROMOTED_TO_LEADER
PromotedToLeader ==
  /\ sock = "open"
  /\ leader' = TRUE
  /\ SetMediator(startCspProxyHandshake(Mediator))
  /\ UNCHANGED <<ws, sock, dedupeVars, reflVars, cspObs, featureVars, deviceVars, accountVars>>

\* this.emit('cspReady'): every once('cspReady') listener resolves its waiter.
cspReady(m) ==
  [m EXCEPT !.waiters = [w \in WaiterIds |->
                           IF @[w].st = "waiting" THEN [@[w] EXCEPT !.st = "resolved"]
                           ELSE @[w]]]

\* The listeners startCspProxyHandshake puts on the CspHandler, run on the
\* events of one handleProxyData call in the order they were emitted.
RECURSIVE onCspEvents(_, _)
onCspEvents(m, events) ==
  IF events = <<>> THEN m
  ELSE LET e == Head(events)
           n == CASE e.name = "ready" -> cspReady(m)
                  [] e.name = "outgoingMessageAck" ->
                       resolvePendingOutgoingMessageAck(m, e.id, e.mid)
                  [] e.name = "error" ->
                       [m EXCEPT !.calls = rejectAllPendingOutgoingMessageAcks(
                                             @, m.outgoingAcks),
                                 !.outgoingAcks = NoPending]
                  [] OTHER -> m IN
       onCspEvents(n, Tail(events))

\* handleProxyFrame
handleProxyFrame(m, u) ==
  IF m.csp.state = "none" THEN m
  ELSE LET k == handleProxyData(Call(m.csp), u)
           s == sendAllProxyData([m EXCEPT !.csp = Handler(k)], k.out) IN
       onCspEvents(s, k.ev)

\* What the chat server sends while sends are in flight: the handshake in its
\* order, then acks of outgoing messages; after the hello, also a box that does
\* not open.
SendProxyUnits(h) ==
  {u \in ProxyUnits(h.ssn) :
     \/ h.state = "waitingServerHello" /\ u.kind = "hello" /\ u.body = "ok" /\ u.seq = h.ssn
     \/ h.state = "waitingLoginAck" /\ u.kind = "loginAck" /\ u.body = "ok"
     \/ h.state = "ready" /\ u.kind = "frame" /\ u.body = "outAck" /\ u.seq = h.ssn
     \/ h.state = "ready" /\ u.kind = "frame" /\ u.body = "other" /\ u.seq # h.ssn}

\* ws.on('message') -> handleFrame -> case D2M.PROXY
HandleProxyFrame ==
  /\ sock = "open"
  /\ csp.ssn <= MaxSeq
  /\ Len(csp.buffer) < MaxBuffer
  /\ \E u \in SendProxyUnits(csp) : SetMediator(handleProxyFrame(Mediator, u))
  /\ UNCHANGED sendVars

waitForLeaderAndCsp(m, w, timeoutMs) ==
  IF leader /\ m.csp.state = "ready"
  THEN [m EXCEPT !.waiters[w] = [st |-> "resolved", kind |-> "leaderAndCsp", ttl |-> 0]]
  ELSE [m EXCEPT !.waiters[w] = [st |-> "waiting", kind |-> "leaderAndCsp", ttl |-> timeoutMs]]

waitForCspReady(m, w, timeoutMs) ==
  IF m.csp.state = "ready"
  THEN [m EXCEPT !.waiters[w] = [st |-> "resolved", kind |-> "cspReady", ttl |-> 0]]
  ELSE [m EXCEPT !.waiters[w] = [st |-> "waiting", kind |-> "cspReady", ttl |-> timeoutMs]]

WaitForLeaderAndCsp(w) ==
  /\ waiters[w].st = "idle"
  /\ \E t \in WaitTimeouts : SetMediator(waitForLeaderAndCsp(Mediator, w, t))
  /\ UNCHANGED sendVars

WaitForCspReady(w) ==
  /\ waiters[w].st = "idle"
  /\ \E t \in WaitTimeouts : SetMediator(waitForCspReady(Mediator, w, t))
  /\ UNCHANGED sendVars

\* The setTimeout callback of waitForLeaderAndCsp / waitForCspReady.
WaiterTimeout(w) ==
  /\ waiters[w].st = "waiting" /\ waiters[w].ttl = 0
  /\ waiters' = [waiters EXCEPT ![w].st = "rejected"]
  /\ UNCHANGED <<connVars, csp, pendingReflectAcks, pendingOutgoingMessageAcks,
                 nextReflectId, calls, dedupeVars, wsSent, reflVars, cspObs, featureVars, deviceVars, accountVars>>

ReflectAckTimeout(reflectId) ==
  /\ reflectId \in DOMAIN pendingReflectAcks
  /\ pendingReflectAcks[reflectId].ttl = 0
  /\ SetMediator(reflectAckTimedOut(Mediator, reflectId))
  /\ UNCHANGED sendVars

OutgoingMessageAckTimeout(key) ==
  /\ key \in DOMAIN pendingOutgoingMessageAcks
  /\ pendingOutgoingMessageAcks[key].ttl = 0
  /\ SetMediator(outgoingMessageAckTimedOut(Mediator, key))
  /\ UNCHANGED sendVars

\* The timers that are running, as the times they have left.
Running ==
  {pendingReflectAcks[r].ttl : r \in DOMAIN pendingReflectAcks}
  \cup {pendingOutgoingMessageAcks[k].ttl : k \in DOMAIN pendingOutgoingMessageAcks}
  \cup {waiters[w].ttl : w \in {x \in WaiterIds : waiters[x].st = "waiting"}}

\* One unit of time passes; a timer that is due fires before more time passes.
Tick ==
  /\ Running # {}
  /\ 0 \notin Running
  /\ pendingReflectAcks' = [r \in DOMAIN pendingReflectAcks |->
                              [pendingReflectAcks[r] EXCEPT !.ttl = @ - 1]]
  /\ pendingOutgoingMessageAcks' = [k \in DOMAIN pendingOutgoingMessageAcks |->
                                      [pendingOutgoingMessageAcks[k] EXCEPT !.ttl = @ - 1]]
  /\ waiters' = [w \in WaiterIds |-> IF waiters[w].st = "waiting"
                                     THEN [waiters[w] EXCEPT !.ttl = @ - 1]
                                     ELSE waiters[w]]
  /\ UNCHANGED <<connVars, csp, nextReflectId, calls, dedupeVars, wsSent, reflVars, cspObs, featureVars, deviceVars, accountVars>>

(***************************************************************************)
(* SpecSend: connection, sends, pending acknowledgements and teardown      *)
(***************************************************************************)
\* The steps of the client and its environment when the callers in S send.
NextSendBy(S) ==
  \/ Connect
  \/ WsOpen
  \/ WsClose
  \/ Disconnect
  \/ PromotedToLeader
  \/ HandleProxyFrame
  \/ HandleReflectAck
  \/ \E c \in S : SendTextMessage(c)
  \/ \E c \in S : GetContactPublicKeySettles(c)
  \/ \E c \in S : ResumeSend(c)
  \/ \E r \in DOMAIN pendingReflectAcks : ReflectAckTimeout(r)
  \/ \E k \in DOMAIN pendingOutgoingMessageAcks : OutgoingMessageAckTimeout(k)
  \/ Tick

NextSend == NextSendBy(Callers)

SpecSend == Init /\ [][NextSend]_vars

\* Timers run and fire, and a settled promise's continuation runs.
FairSend ==
  /\ WF_vars(Tick)
  /\ WF_vars(\E r \in DOMAIN pendingReflectAcks : ReflectAckTimeout(r))
  /\ WF_vars(\E k \in DOMAIN pendingOutgoingMessageAcks : OutgoingMessageAckTimeout(k))
  /\ WF_vars(\E c \in Callers : ResumeSend(c))

\* The fair behaviours in which one caller sends.
NextSendOne == NextSendBy({1})

SpecSendFair == Init /\ [][NextSendOne]_vars /\ FairSend

(***************************************************************************)
(* SpecReflect: a follower sending texts over reflection on one connection *)
(***************************************************************************)
\* The REFLECT frames one socket carries before the counter has gone round once
\* and met an id that is still pending.
MaxReflects == ReflectIdSpace + 2

\* A caller invokes sendTextMessage while the client is no leader; the message
\* id plays no part in the allocation of the reflect id, so one id is drawn.
SendTextMessageAsFollower(c) ==
  /\ calls[c].pc = "idle"
  /\ ~leader
  /\ Len(wsSent) < MaxReflects
  /\ \E to \in Recipients :
       SetMediator(sendTextMessage(Mediator, c, to, CHOOSE x \in MsgIds : \A y \in MsgIds : x <= y))
  /\ UNCHANGED sendVars

\* The continuation of sendTextMessageViaReflect after its await.
ResumeSendViaReflect(c) ==
  /\ calls[c].pc = "awaitReflectOnly" /\ calls[c].reflectP # "pending"
  /\ SetMediator(sendTextMessageViaReflectAcked(Mediator, c))
  /\ UNCHANGED sendVars

\* The caller's send has returned or thrown; the caller may send again.
SendReturned(c) ==
  /\ calls[c].pc \in {"done", "failed"}
  /\ calls' = [calls EXCEPT ![c] = IdleCall]
  /\ UNCHANGED <<connVars, csp, pendingReflectAcks, pendingOutgoingMessageAcks,
                 nextReflectId, waiters, dedupeVars, wsSent, reflVars, cspObs, featureVars, deviceVars,
                 accountVars>>

NextReflect ==
  \/ Connect
  \/ WsOpen
  \/ HandleReflectAck
  \/ \E c \in Callers : SendTextMessageAsFollower(c)
  \/ \E c \in Callers : ResumeSendViaReflect(c)
  \/ \E c \in Callers : SendReturned(c)
  \/ \E r \in DOMAIN pendingReflectAcks : ReflectAckTimeout(r)
  \/ Tick

SpecReflect == Init /\ [][NextReflect]_vars

(***************************************************************************)
(* SpecWait: connection, CSP handshake and the readiness waiters           *)
(***************************************************************************)
NextWait ==
  \/ Connect
  \/ WsOpen
  \/ WsClose
  \/ Disconnect
  \/ PromotedToLeader
  \/ HandleProxyFrame
  \/ \E w \in WaiterIds : WaitForLeaderAndCsp(w)
  \/ \E w \in WaiterIds : WaitForCspReady(w)
  \/ \E w \in WaiterIds : WaiterTimeout(w)
  \/ Tick

SpecWait == Init /\ [][NextWait]_vars

(***************************************************************************)
(* MediatorClient: the mediator handshake                                  *)
(***************************************************************************)
\* d2m.ClientHello with its expectedDeviceSlotState (0: NEW, 1: EXISTING).
ClientHello(expectedDeviceSlotState) ==
  Frame("CLIENT_HELLO", expectedDeviceSlotState, -1, NoId, NoMid, 0)

ClientHellosSent == {i \in DOMAIN wsSent : wsSent[i].type = "CLIENT_HELLO"}

\* ws.on('message') -> handleFrame -> case D2M.SERVER_HELLO -> handleServerHello:
\* answer with the ClientHello, then saveDeviceId().  The mediator sends one
\* ServerHello on a connection.
HandleServerHello ==
  /\ sock = "open" /\ ws = "sock"
  /\ ClientHellosSent = {}
  /\ wsSent' = Append(wsSent, ClientHello(IF isFirstConnection THEN "NEW" ELSE "EXISTING"))
  /\ deviceIdSaved' = TRUE
  /\ UNCHANGED <<connVars, csp, ackVars, dedupeVars, reflVars, cspObs, featureVars, isFirstConnection,
                 proc, accountVars>>

(***************************************************************************)
(* startAccount: the account that owns the client, and its reconnect loop  *)
(* Time is counted in units of 5 s.                                        *)
(***************************************************************************)
\* The default delayMs of scheduleReconnect (5000 ms).
RECONNECT_DELAY_MS == 1

\* The locals of startAccount as one value.
Account == [account |-> account, stopped |-> stopped, timer |-> reconnectTimer,
            inFlight |-> reconnectInFlight, connectP |-> connectP,
            active |-> activeClient, typing |-> typing]

SetAccount(a) ==
  /\ account' = a.account
  /\ stopped' = a.stopped
  /\ reconnectTimer' = a.timer
  /\ reconnectInFlight' = a.inFlight
  /\ connectP' = a.connectP
  /\ activeClient' = a.active
  /\ typing' = a.typing

\* sendDirectTypingIndicator up to the first await of sendTypingIndicator
\* (`await this.getContactPublicKey`): nothing is under way afterwards when
\* activeClients has no client or the client is not leader with CSP ready;
\* otherwise the CspHandler is captured and the send waits for the key.
\* `by` names the caller: beginDirectTyping, the refresh interval, the stop
\* timer, or stop().
sendDirectTypingIndicator(t, to, isTyping, by) ==
  IF ~activeClient \/ ~leader \/ csp.state # "ready" \/ ws = "null" THEN t
  ELSE [t EXCEPT !.pending = @ \cup {[to |-> to, isTyping |-> isTyping, cspOk |-> TRUE,
                                      by |-> by]}]

clearDirectTypingSessionTimers(session) ==
  [session EXCEPT !.stopTimer = FALSE, !.refreshTimer = FALSE]

beginDirectTyping(t, to) ==
  LET session == [t.sessions[to] EXCEPT !.exists = TRUE, !.stopTimer = FALSE,
                                        !.refreshTimer = TRUE]
      u == [t EXCEPT !.sessions[to] = session] IN
  IF session.active THEN u
  ELSE sendDirectTypingIndicator([u EXCEPT !.sessions[to].active = TRUE], to, TRUE, "begin")

endDirectTyping(t, to) ==
  IF ~t.sessions[to].exists THEN t ELSE [t EXCEPT !.sessions[to].stopTimer = TRUE]

\* The setTimeout callback of endDirectTyping.
stopTimerFired(t, to) ==
  [sendDirectTypingIndicator(t, to, FALSE, "stopTimer") EXCEPT !.sessions[to] = NoTypingSession]

RECURSIVE clearDirectTypingSessionsForAccount(_, _, _)
clearDirectTypingSessionsForAccount(t, peers, sendStop) ==
  IF peers = {} THEN t
  ELSE LET to == CHOOSE p \in peers : TRUE
           u == IF t.sessions[to].exists /\ sendStop
                THEN sendDirectTypingIndicator(t, to, FALSE, "stop")
                ELSE t IN
       clearDirectTypingSessionsForAccount([u EXCEPT !.sessions[to] = NoTypingSession],
                                           peers \ {to}, sendStop)

\* The CspHandler the sends under way captured is closed or dropped.
closeCapturedTyping(t) ==
  [t EXCEPT !.pending = {[e EXCEPT !.cspOk = FALSE] : e \in @}]

scheduleReconnect(a) ==
  IF a.stopped \/ a.timer # NoTimer \/ a.inFlight THEN a
  ELSE [a EXCEPT !.timer = RECONNECT_DELAY_MS]

\* client.on("close", ...), the listener startAccount installs once its first
\* connect() has resolved.
onClose(a) ==
  IF a.account # "running" \/ a.stopped THEN a
  ELSE scheduleReconnect(
         [a EXCEPT !.typing = clearDirectTypingSessionsForAccount(@, TypingPeers, FALSE),
                   !.active = FALSE])

\* A variant of connectResolved whose timer callback registers the client
\* without looking at `stopped`.
connectResolvedRegisters(a) ==
  CASE a.connectP = "start" -> [a EXCEPT !.account = "running", !.connectP = "none",
                                         !.active = TRUE]
    [] a.connectP = "reconnect" -> [a EXCEPT !.inFlight = FALSE, !.connectP = "none",
                                             !.active = TRUE]
    [] OTHER -> a

\* A variant of connectRejected whose timer callback does not retry.
connectRejectedNoRetry(a) ==
  CASE a.connectP = "start" -> [a EXCEPT !.account = "failed", !.connectP = "none",
                                         !.active = FALSE]
    [] a.connectP = "reconnect" -> [a EXCEPT !.inFlight = FALSE, !.connectP = "none"]
    [] OTHER -> a

\* The promise of connect() rejects and the code awaiting it continues:
\* startAccount throws, or the timer callback runs its catch and finally.
connectRejected(a) ==
  CASE a.connectP = "start" -> [a EXCEPT !.account = "failed", !.connectP = "none",
                                         !.active = FALSE]
    [] a.connectP = "reconnect" ->
         LET f == [a EXCEPT !.inFlight = FALSE, !.connectP = "none"] IN
         IF ~a.stopped THEN scheduleReconnect(f) ELSE f
    [] OTHER -> a

\* The promise of connect() resolves and the code awaiting it continues.
connectResolved(a) ==
  CASE a.connectP = "start" -> [a EXCEPT !.account = "running", !.connectP = "none",
                                         !.active = TRUE]
    [] a.connectP = "reconnect" -> [a EXCEPT !.inFlight = FALSE, !.connectP = "none",
                                             !.active = IF a.stopped THEN @ ELSE TRUE]
    [] OTHER -> a

\* startAccount up to `await client.connect()`.
AccountStart ==
  /\ account = "idle"
  /\ ClientConnect
  /\ SetAccount([Account EXCEPT !.account = "starting", !.connectP = "start"])

\* ws.on('close') with the account's listener: emit('close'), then settleReject.
AccountWsClose ==
  /\ ClientWsClose
  /\ SetAccount(connectRejected(onClose([Account EXCEPT !.typing = closeCapturedTyping(@)])))

\* ws.on('error'): settleReject(err); the socket then closes.
AccountWsError ==
  /\ sock \in {"connecting", "open"}
  /\ sock' = "closing"
  /\ SetAccount(connectRejected(Account))
  /\ UNCHANGED <<ws, leader, csp, ackVars, dedupeVars, wsSent, reflVars, cspObs, featureVars, deviceVars>>

\* ws.on('message') -> handleFrame -> case D2M.SERVER_INFO: emit('serverInfo'),
\* which resolves the promise of connect().  With `stopped` set the timer
\* callback calls client.disconnect() and returns.
AccountServerInfo ==
  /\ sock = "open"
  /\ ClientHellosSent # {}
  /\ connectP \in {"start", "reconnect"}
  /\ IF connectP = "reconnect" /\ stopped
     THEN /\ ClientDisconnect
          /\ SetAccount(connectResolved([Account EXCEPT !.typing = closeCapturedTyping(@)]))
     ELSE /\ SetAccount(connectResolved(Account))
          /\ UNCHANGED <<connVars, csp, ackVars, dedupeVars, wsSent, reflVars, cspObs, featureVars, deviceVars>>

\* The setTimeout callback of scheduleReconnect, up to the first await inside
\* client.connect().
ReconnectTimerFires ==
  /\ reconnectTimer = 0
  /\ IF stopped
     THEN /\ SetAccount([Account EXCEPT !.timer = NoTimer])
          /\ UNCHANGED <<connVars, csp, ackVars, dedupeVars, wsSent, reflVars, cspObs, featureVars, deviceVars>>
     ELSE /\ ClientConnectBegins
          /\ SetAccount([Account EXCEPT !.timer = NoTimer, !.inFlight = TRUE,
                                         !.connectP = "loading"])

\* The connect() of a reconnect creates its socket; the timer callback waits
\* for the promise.
ReconnectSocketOpens ==
  /\ connectP = "loading"
  /\ ClientConnectOpensSocket
  /\ SetAccount([Account EXCEPT !.connectP = "reconnect"])

\* stop(), the function startAccount returns.
AccountStop ==
  /\ account = "running"
  /\ ~stopped
  /\ ClientDisconnect
  /\ SetAccount([Account EXCEPT
       !.stopped = TRUE, !.timer = NoTimer, !.active = FALSE,
       !.typing = closeCapturedTyping(
                    [clearDirectTypingSessionsForAccount(@, TypingPeers, TRUE)
                       EXCEPT !.atStop = {p \in TypingPeers : typing.sessions[p].active}])])

\* One unit of time passes on the reconnect timer; a due timer fires first.
AccountTick ==
  /\ reconnectTimer > 0
  /\ reconnectTimer' = reconnectTimer - 1
  /\ UNCHANGED <<connVars, csp, ackVars, dedupeVars, wsSent, reflVars, cspObs, featureVars, deviceVars,
                 account, stopped, reconnectInFlight, connectP, activeClient, typing>>

(***************************************************************************)
(* SpecAccount: an account, its client's connections and the reconnects    *)
(***************************************************************************)
NextAccount ==
  \/ AccountStart
  \/ WsOpen
  \/ HandleServerHello
  \/ AccountServerInfo
  \/ PromotedToLeader
  \/ HandleProxyFrame
  \/ AccountWsError
  \/ AccountWsClose
  \/ ReconnectTimerFires
  \/ ReconnectSocketOpens
  \/ AccountStop
  \/ AccountTick

SpecAccount == Init /\ [][NextAccount]_vars

\* Time passes, a due timer fires, and a socket that is closing closes.
FairAccount ==
  /\ WF_vars(AccountTick)
  /\ WF_vars(ReconnectTimerFires)
  /\ WF_vars(ReconnectSocketOpens)
  /\ WF_vars(sock = "closing" /\ AccountWsClose)

SpecAccountFair == SpecAccount /\ FairAccount

(***************************************************************************)
(* MediatorClient: group text and group reaction fan-out                   *)
(***************************************************************************)
\* Longest memberIdentities argument.
MaxMembers == 3
\* The caller whose slot of `calls` holds the reflect promise and the captured
\* CspHandler of the group send; ackPromises[i] is held in slot i.
GroupCaller == 1

MemberLists == UNION {[1..n -> RawIdentities \cup {OwnIdentity}] : n \in 0..MaxMembers}

\* Array.from(new Set(list)): the first occurrence of each element, in order.
RECURSIVE distinctInOrder(_, _)
distinctInOrder(list, seen) ==
  IF list = <<>> THEN <<>>
  ELSE IF Head(list) \in seen THEN distinctInOrder(Tail(list), seen)
  ELSE <<Head(list)>> \o distinctInOrder(Tail(list), seen \cup {Head(list)})

\* const members = Array.from(new Set(memberIdentities.map(normalizeIdentity)))
\*                   .filter((identity) => identity !== this.identity.identity)
groupMembers(memberIdentities) ==
  SelectSeq(distinctInOrder([i \in DOMAIN memberIdentities |->
                               normalizeIdentity(memberIdentities[i])], {}),
            LAMBDA identity : identity # OwnIdentity)

\* normalizeIdentity throws for one of the member identities.
invalidMember(memberIdentities) ==
  \E i \in DOMAIN memberIdentities : normalizeIdentity(memberIdentities[i]) = "invalid"

\* sendGroupReaction's specificRecipientPlans: the members that support
\* reactions, and the others when the reaction maps to a legacy receipt.
recipientPlans(members, support, legacy) ==
  SelectSeq(members, LAMBDA identity : support[identity] = "supported" \/ legacy)

\* createReflectionNonces(count): count random 24-byte values, taken to be
\* values never drawn before.
createReflectionNonces(drawn, count) == [i \in 1..count |-> drawn + i]

\* A variant of the fan-out loop's `nonces[index]` that walks the prepared
\* nonces from the end.
nonceForRecipientReversed(nonces, index) == nonces[Len(nonces) + 1 - index]

\* const nonce = nonces[index]  (index counts from 1 here)
nonceForRecipient(nonces, index) == nonces[index]

\* encryptE2ePayload(type, body, key, nonce): the nonce given, or a random one.
encryptE2ePayload(nonce, drawn) == IF nonce = 0 THEN drawn + 1 ELSE nonce

\* The client and the group send as one value.
GroupSend == [m |-> Mediator, g |-> group]

SetGroupSend(s) == SetMediator(s.m) /\ group' = s.g

groupFailed(s) == [s EXCEPT !.g.pc = "failed", !.m.calls[GroupCaller].cspOk = FALSE]

groupDone(s) == [s EXCEPT !.g.pc = "done", !.m.calls[GroupCaller].cspOk = FALSE]

\* reflectOutgoingMessage({conversation: {group}, messageId, type, body, nonces})
reflectGroupMessage(s, nonces) ==
  [s EXCEPT !.m = reflectOutgoingMessage(s.m, GroupCaller, NoId, s.g.mid),
            !.g.envelope = IF ws = "null" THEN @ ELSE nonces,
            !.g.reflected = @ \/ ws # "null"]

\* rejectOutgoingMessageAcksForMessageId
rejectOutgoingMessageAcksForMessageId(m, messageId) ==
  LET hit == {k \in DOMAIN m.outgoingAcks : k[2] = messageId} IN
  [m EXCEPT !.outgoingAcks = [k \in DOMAIN @ \ hit |-> @[k]],
            !.calls = [c \in Callers |->
                         IF c \in {m.outgoingAcks[k].by : k \in hit}
                         THEN [@[c] EXCEPT !.cspP = "rejected"] ELSE @[c]]]

\* The catch block of the fan-out.
groupFanOutFailed(s) ==
  groupFailed([s EXCEPT !.m = rejectOutgoingMessageAcksForMessageId(s.m, s.g.mid)])

\* The fan-out loop at `await this.getContactPublicKey`, or past its last
\* recipient at `await Promise.all(ackPromises)`.
groupFanOutNext(s, index) ==
  IF index > Len(s.g.plans) THEN [s EXCEPT !.g.pc = "awaitAcks", !.g.index = index]
  ELSE IF index > Len(s.g.nonces) THEN groupFanOutFailed(s)
  ELSE [s EXCEPT !.g.pc = "awaitKey", !.g.index = index]

\* One pass of the fan-out loop once the recipient's public key is there:
\* encrypt under the prepared nonce, register the ack promise, send the container.
groupFanOutSend(s) ==
  LET index == s.g.index
      to == s.g.plans[index]
      nonce == encryptE2ePayload(nonceForRecipient(s.g.nonces, index), s.g.drawn)
      p == createOutgoingMessageAckPromise(s.m, index, to, s.g.mid)
      k == IF p.calls[GroupCaller].cspOk
           THEN sendContainer(Call(p.csp), CSP_CONTAINER_OUTGOING_MESSAGE, to, s.g.mid)
           ELSE Throw(Call(p.csp))
      t == IF k.thrown THEN [p EXCEPT !.thrown = TRUE]
           ELSE sendAllProxyData([p EXCEPT !.csp = Handler(k)], k.out) IN
  IF t.thrown THEN groupFanOutFailed([s EXCEPT !.m = [t EXCEPT !.thrown = FALSE]])
  ELSE groupFanOutNext([s EXCEPT !.m = t,
                                 !.g.containers = Append(@, [to |-> to, nonce |-> nonce])],
                       index + 1)

\* sendGroupTextMessage up to its first await.
sendGroupTextMessage(s, memberIdentities, strictCsp, mid) ==
  IF invalidMember(memberIdentities) THEN groupFailed([s EXCEPT !.g.kind = "text"])
  ELSE
    LET members == groupMembers(memberIdentities)
        b == [s EXCEPT !.g.kind = "text", !.g.plans = members, !.g.mid = mid]
        ready == leader /\ s.m.csp.state = "ready" IN
    IF members = <<>>
    THEN LET r == reflectGroupMessage(b, <<>>) IN
         IF r.m.thrown THEN groupFailed([r EXCEPT !.m.thrown = FALSE])
         ELSE [r EXCEPT !.g.pc = "awaitReflectOnly"]
    ELSE
      LET n == [b EXCEPT !.g.nonces = createReflectionNonces(s.g.drawn, Len(members)),
                         !.g.drawn = @ + Len(members)] IN
      IF strictCsp /\ ~ready THEN groupFailed(n)
      ELSE IF ws = "null" THEN groupFailed(n)
      ELSE LET c == IF ready THEN [n EXCEPT !.m.calls[GroupCaller].cspOk = TRUE] ELSE n
               r == reflectGroupMessage(c, n.g.nonces) IN
           IF r.m.thrown THEN groupFailed([r EXCEPT !.m.thrown = FALSE])
           ELSE [r EXCEPT !.g.pc = IF ready THEN "awaitReflect" ELSE "awaitReflectOnly"]

\* sendGroupReaction up to its first await.
sendGroupReaction(s, memberIdentities, support, legacy, mid) ==
  IF invalidMember(memberIdentities) THEN groupFailed([s EXCEPT !.g.kind = "reaction"])
  ELSE
    LET members == groupMembers(memberIdentities)
        plans == recipientPlans(members, support, legacy)
        b == [s EXCEPT !.g.kind = "reaction", !.g.plans = plans, !.g.mid = mid] IN
    IF plans = <<>> /\ members # <<>> THEN groupDone(b)
    ELSE
      LET n == [b EXCEPT !.g.nonces = createReflectionNonces(s.g.drawn, Len(plans)),
                         !.g.drawn = @ + Len(plans)]
          r == reflectGroupMessage(n, n.g.nonces) IN
      IF r.m.thrown THEN groupFailed([r EXCEPT !.m.thrown = FALSE])
      ELSE [r EXCEPT !.g.pc = "awaitReflect"]

\* After `await this.reflectOutgoingMessage`.
groupReflected(s) ==
  IF s.m.calls[GroupCaller].reflectP = "rejected" THEN groupFailed(s)
  ELSE IF s.g.pc = "awaitReflectOnly" THEN groupDone(s)
  ELSE IF s.g.kind = "text" THEN groupFanOutNext(s, 1)
  ELSE IF s.g.plans = <<>> THEN groupDone(s)
  ELSE IF ~leader \/ s.m.csp.state # "ready" THEN groupDone(s)
  ELSE groupFanOutNext([s EXCEPT !.m.calls[GroupCaller].cspOk = TRUE], 1)

\* ackPromises[i] is pending / was rejected.
groupAckPending(i) == \E k \in DOMAIN pendingOutgoingMessageAcks :
                        pendingOutgoingMessageAcks[k].by = i /\ k[2] = group.mid
groupAckRejected(i) == calls[i].cspP = "rejected"

\* After `await Promise.all(ackPromises)`.
groupAcked(s) ==
  IF \E i \in DOMAIN s.g.plans : s.m.calls[i].cspP = "rejected" THEN groupFanOutFailed(s)
  ELSE groupDone(s)

\* The first message id createMessageTimestamps draws.
FirstMsgId == CHOOSE x \in MsgIds : \A y \in MsgIds : x <= y

SendGroupTextMessage ==
  /\ group.pc = "idle"
  /\ \E memberIdentities \in MemberLists, strictCsp \in BOOLEAN :
       SetGroupSend(sendGroupTextMessage(GroupSend, memberIdentities, strictCsp, FirstMsgId))
  /\ UNCHANGED <<connVars, dedupeVars, reflVars, cspObs, deviceVars, accountVars, rdv, link, reply, hostVars>>

SendGroupReaction ==
  /\ group.pc = "idle"
  /\ \E memberIdentities \in MemberLists,
        support \in [Identities -> {"supported", "unsupported"}], legacy \in BOOLEAN :
       SetGroupSend(sendGroupReaction(GroupSend, memberIdentities, support, legacy, FirstMsgId))
  /\ UNCHANGED <<connVars, dedupeVars, reflVars, cspObs, deviceVars, accountVars, rdv, link, reply, hostVars>>

\* The reflect promise settled: the group send goes on after its await.
GroupReflectSettled ==
  /\ group.pc \in {"awaitReflect", "awaitReflectOnly"}
  /\ calls[GroupCaller].reflectP # "pending"
  /\ SetGroupSend(groupReflected(GroupSend))
  /\ UNCHANGED <<connVars, dedupeVars, reflVars, cspObs, deviceVars, accountVars, rdv, link, reply, hostVars>>

\* getContactPublicKey settles with the recipient's key.
GroupKeyResolved ==
  /\ group.pc = "awaitKey"
  /\ SetGroupSend(groupFanOutSend(GroupSend))
  /\ UNCHANGED <<connVars, dedupeVars, reflVars, cspObs, deviceVars, accountVars, rdv, link, reply, hostVars>>

\* getContactPublicKey throws: the directory lookup failed.
GroupKeyRejected ==
  /\ group.pc = "awaitKey"
  /\ SetGroupSend(groupFanOutFailed(GroupSend))
  /\ UNCHANGED <<connVars, dedupeVars, reflVars, cspObs, deviceVars, accountVars, rdv, link, reply, hostVars>>

\* Promise.all(ackPromises) settled: one promise was rejected or all resolved.
GroupAcksSettled ==
  /\ group.pc = "awaitAcks"
  /\ \/ \E i \in DOMAIN group.plans : groupAckRejected(i)
     \/ \A i \in DOMAIN group.plans : ~groupAckPending(i)
  /\ SetGroupSend(groupAcked(GroupSend))
  /\ UNCHANGED <<connVars, dedupeVars, reflVars, cspObs, deviceVars, accountVars, rdv, link, reply, hostVars>>

NextGroup ==
  \/ Connect
  \/ WsOpen
  \/ WsClose
  \/ PromotedToLeader
  \/ HandleProxyFrame
  \/ HandleReflectAck
  \/ SendGroupTextMessage
  \/ SendGroupReaction
  \/ GroupReflectSettled
  \/ GroupKeyResolved
  \/ GroupKeyRejected
  \/ GroupAcksSettled
  \/ \E r \in DOMAIN pendingReflectAcks : ReflectAckTimeout(r)
  \/ \E k \in DOMAIN pendingOutgoingMessageAcks : OutgoingMessageAckTimeout(k)
  \/ Tick

SpecGroup == Init /\ [][NextGroup]_vars

(***************************************************************************)
(* Device linking: rendezvous (rendezvous.ts), runDeviceJoin and main()    *)
(***************************************************************************)
\* Largest number of rendezvous frames processed in one behaviour.
MaxRdvFrames == 6
\* The frames one WebSocket message may hold.
FramesPerMessage == {1, 2}

HandshakeBodies == {"hello", "auth", "authBad", "nominate"}
\* msg.content of an EdToNd message; "undecodable": EdToNd.decode throws.
JoinContents == {"begin", "blobData", "essentialData", "unknown", "undecodable"}

\* A frame as the peer sealed it: under a key and a sequence number.
RdvFrame(key, sn, body) == [key |-> key, sn |-> sn, body |-> body]

\* A variant of transitionTo that starts the new cipher at sequence number 1.
transitionToInitialSn(cipher, newKey) == RendezvousCipher(newKey, 1)

\* RendezvousCipher.transitionTo
transitionTo(cipher, newKey) == RendezvousCipher(newKey, cipher.sn)

\* RendezvousCipher.makeNonce for the cipher held in variable `name`.
makeNonce(r, name, dir) ==
  [r EXCEPT ![name].sn = @ + 1,
            !.nonces = Append(@, [dir |-> dir, key |-> r[name].key, sn |-> r[name].sn])]

\* RendezvousCipher.encrypt followed by ws.send(encodeFrame(...)).
rdvSend(r, name, body) ==
  LET n == makeNonce(r, name, "encrypt") IN
  IF r.sock = "open" THEN [n EXCEPT !.sent = Append(@, RdvFrame(r[name].key, r[name].sn, body))]
  ELSE n

\* RendezvousCipher.decrypt: the nonce is built, then the box opens or it throws.
rdvDecrypt(r, name, frame) ==
  LET n == makeNonce(r, name, "decrypt") IN
  IF frame.key = r[name].key /\ frame.sn = r[name].sn THEN n ELSE [n EXCEPT !.thrown = TRUE]

\* processFrame
processFrame(r, frame) ==
  CASE r.state = "awaiting-hello" ->
         LET d == rdvDecrypt(r, "rrdDecrypt", frame) IN
         IF d.thrown \/ frame.body # "hello" THEN [d EXCEPT !.thrown = TRUE]
         ELSE [rdvSend(d, "ridEncrypt", "authHello") EXCEPT
                 !.transportKeys = TRUE, !.state = "awaiting-auth"]
    [] r.state = "awaiting-auth" ->
         LET d == rdvDecrypt(r, "rrdDecrypt", frame) IN
         IF d.thrown \/ frame.body # "auth" \/ ~d.transportKeys
         THEN [d EXCEPT !.thrown = TRUE]
         ELSE [d EXCEPT !.ridtkEncrypt = transitionTo(d.ridEncrypt, "ridtk"),
                        !.rrdtkDecrypt = transitionTo(d.rrdDecrypt, "rrdtk"),
                        !.state = "awaiting-nominate"]
    [] r.state = "awaiting-nominate" ->
         LET d == rdvDecrypt(r, "rrdtkDecrypt", frame) IN
         IF d.thrown \/ frame.body # "nominate" THEN [d EXCEPT !.thrown = TRUE]
         ELSE [d EXCEPT !.state = "nominated",
                        !.promise = IF @ = "pending" THEN "resolved" ELSE @]
    [] r.state = "nominated" ->
         LET d == rdvDecrypt(r, "rrdtkDecrypt", frame) IN
         IF d.thrown THEN d ELSE [d EXCEPT !.ulpQueue = Append(@, frame.body)]

\* The loop of ws.on('message'): every frame is processed; a throw is caught,
\* logged and given to reject, and the loop goes on.
RECURSIVE processFrames(_, _)
processFrames(r, frames) ==
  IF frames = <<>> THEN r
  ELSE LET counted == [r EXCEPT !.rx = @ + 1,
                                !.afterFailure = IF r.failures > 0 THEN @ + 1 ELSE @]
           p == processFrame(counted, Head(frames))
           c == IF p.thrown
                THEN [p EXCEPT !.thrown = FALSE, !.failures = @ + 1,
                               !.promise = IF @ = "pending" THEN "rejected" ELSE @]
                ELSE p IN
       processFrames(c, Tail(frames))

\* The sequence number the peer's next frame is opened under.
rdvDecryptSn(r) == IF r.rrdtkDecrypt = NoCipher THEN r.rrdDecrypt.sn ELSE r.rrdtkDecrypt.sn

\* The frames the peer may send as the i-th frame of a message: a body that
\* fits the phase or not, sealed under the auth or the transport key and under
\* the number the receiver will use or the next one.
RdvFramesAt(r, i) ==
  {RdvFrame(key, sn, body) :
     key \in {"rrdak", "rrdtk"},
     sn \in {rdvDecryptSn(r) + i - 1, rdvDecryptSn(r) + i},
     body \in IF r.state = "nominated" THEN JoinContents ELSE HandshakeBodies}

\* The messages of n frames.
RECURSIVE RdvMessagesOf(_, _)
RdvMessagesOf(r, n) ==
  IF n = 0 THEN {<<>>}
  ELSE {Append(m, f) : m \in RdvMessagesOf(r, n - 1), f \in RdvFramesAt(r, n)}

RdvMessages(r) == UNION {RdvMessagesOf(r, n) : n \in FramesPerMessage}

\* main(): `const conn = await setup.connect()`; connect() makes the socket and
\* the two auth ciphers.
LinkConnect ==
  /\ link.pc = "start"
  /\ rdv' = [NoRdv EXCEPT !.state = "awaiting-hello", !.sock = "connecting",
                          !.promise = "pending",
                          !.ridEncrypt = RendezvousCipher("ridak", 1),
                          !.rrdDecrypt = RendezvousCipher("rrdak", 1)]
  /\ link' = [link EXCEPT !.pc = "connect"]

\* ws.on('open')
RdvWsOpen ==
  /\ rdv.sock = "connecting"
  /\ rdv' = [rdv EXCEPT !.sock = "open"]
  /\ UNCHANGED link

\* ws.on('close'): logged only; ws.on('error') rejects the promise.
RdvWsClose ==
  /\ rdv.sock \in {"connecting", "open"}
  /\ \E error \in BOOLEAN :
       LET r == [rdv EXCEPT !.sock = "closed",
                            !.promise = IF error /\ @ = "pending" THEN "rejected" ELSE @] IN
       /\ rdv' = r
       /\ link' = IF link.pc = "connect" /\ r.promise = "rejected"
                  THEN [link EXCEPT !.pc = "exit1"] ELSE link

\* ws.on('message'), and what main() does when the promise of connect()
\* settled in it: on a rejection main's catch calls process.exit(1), on the
\* resolution main goes on to runDeviceJoin.
RdvMessage ==
  /\ rdv.sock = "open"
  /\ \E m \in RdvMessages(rdv) :
       /\ rdv.rx + Len(m) <= MaxRdvFrames
       /\ LET r == processFrames(rdv, m) IN
          CASE link.pc = "connect" /\ r.promise = "rejected" ->
                 /\ rdv' = [r EXCEPT !.sock = "closed"]
                 /\ link' = [link EXCEPT !.pc = "exit1"]
            [] link.pc = "connect" /\ r.promise = "resolved" ->
                 /\ rdv' = r
                 /\ link' = [link EXCEPT !.pc = "join"]
            [] OTHER -> rdv' = r /\ UNCHANGED link

\* runDeviceJoin: one pass of the loop on the data conn.receive() resolved with.
runDeviceJoin(l, r, content, groups) ==
  CASE content = "undecodable" -> [l |-> l, r |-> r]
    [] content = "begin" ->
         IF l.state # "wait-begin" THEN [l |-> [l EXCEPT !.pc = "thrown"], r |-> r]
         ELSE [l |-> [l EXCEPT !.state = "sync-blobs"], r |-> r]
    [] content = "blobData" ->
         IF l.state # "sync-blobs" THEN [l |-> [l EXCEPT !.pc = "thrown"], r |-> r]
         ELSE [l |-> [l EXCEPT !.blobs = @ + 1], r |-> r]
    [] content = "essentialData" ->
         [l |-> [l EXCEPT !.state = "done", !.pc = "returned", !.groups = groups],
          r |-> rdvSend(r, "ridtkEncrypt", "registered")]
    [] OTHER -> [l |-> l, r |-> r]

\* `const data = await conn.receive()` resolves with the head of the queue.
JoinReceive ==
  /\ link.pc = "join"
  /\ rdv.ulpQueue # <<>>
  /\ \E groups \in {0, 1} :
       LET content == Head(rdv.ulpQueue)
           j == runDeviceJoin([link EXCEPT !.handled = Append(@, content)],
                              [rdv EXCEPT !.ulpQueue = Tail(@)], content,
                              IF content = "essentialData" THEN groups ELSE 0) IN
       /\ link' = j.l
       /\ rdv' = j.r

\* main() from `Step 6` on: the files are written one after the other, then
\* conn.close() and process.exit(0); a write that throws ends in main's catch.
MainSave ==
  /\ link.pc = "returned"
  /\ \E thrownAt \in {"none", "identity.json", "contacts.json", "groups.json"} :
       LET files == <<"identity.json", "contacts.json">>
                    \o (IF link.groups > 0 THEN <<"groups.json">> ELSE <<>>)
           written == {files[i] : i \in {k \in DOMAIN files :
                         \A h \in 1..k : files[h] # thrownAt}} IN
       /\ thrownAt = "none" \/ \E i \in DOMAIN files : files[i] = thrownAt
       /\ link' = [link EXCEPT !.disk = written,
                               !.pc = IF thrownAt = "none" THEN "exit0" ELSE "exit1"]
       /\ rdv' = [rdv EXCEPT !.sock = "closed"]

\* main().catch after runDeviceJoin threw: process.exit(1).
MainCatch ==
  /\ link.pc = "thrown"
  /\ link' = [link EXCEPT !.pc = "exit1"]
  /\ rdv' = [rdv EXCEPT !.sock = "closed"]

linkOnly == <<connVars, csp, ackVars, dedupeVars, wsSent, reflVars, cspObs, deviceVars,
              accountVars, group, reply, hostVars>>

NextLink ==
  \/ LinkConnect /\ UNCHANGED linkOnly
  \/ RdvWsOpen /\ UNCHANGED linkOnly
  \/ RdvWsClose /\ UNCHANGED linkOnly
  \/ RdvMessage /\ UNCHANGED linkOnly
  \/ JoinReceive /\ UNCHANGED linkOnly
  \/ MainSave /\ UNCHANGED linkOnly
  \/ MainCatch /\ UNCHANGED linkOnly

SpecLink == Init /\ [][NextLink]_vars

(***************************************************************************)
(* Channel plugin: evolving group replies (part_005)                       *)
(***************************************************************************)
\* Largest number of reply fragments (partial, block, final) of one reply.
MaxChunks == 3
\* 15 minutes and 120 ms in the source, each scaled to ticks of its own clock.
GROUP_EVOLVING_REPLY_SESSION_TTL_MS == 1
DEFAULT_GROUP_EVOLVING_PARTIAL_INTERVAL_MS == 1

\* The texts of the fragments, after convertMarkdownTables: the pieces of one
\* word, so that some are prefixes of others and some are not; <<>> is a text
\* that is empty or blank.
ReplyTexts == {<<>>, <<"a">>, <<"a", "b">>, <<"b">>}

startsWith(text, prefix) ==
  Len(prefix) <= Len(text) /\ SubSeq(text, 1, Len(prefix)) = prefix

\* pruneGroupEvolvingReplySessions, for the entry of this reply.
pruneGroupEvolvingReplySessions(session) ==
  IF session # NoSession /\ session.age > GROUP_EVOLVING_REPLY_SESSION_TTL_MS
  THEN NoSession ELSE session

\* resolveGroupEvolvingReplyText
resolveGroupEvolvingReplyText(session, nextText, kind) ==
  IF session = NoSession \/ session.lastText = <<>> THEN nextText
  ELSE IF kind = "block"
       THEN IF startsWith(nextText, session.lastText) THEN nextText
            ELSE session.lastText \o nextText
  ELSE nextText

\* A variant of the session lookup that never finds an entry.
lookupSessionNone(session) == NoSession

\* groupEvolvingReplySessions.get(groupEvolvingSessionKey), after the prune.
lookupSession(session) == pruneGroupEvolvingReplySessions(session)

\* The call with index k: 0 is deliver's, k > 0 the k-th link of the chain.
replyOp(r, k) == IF k = 0 THEN r.deliver ELSE r.chain[k]

setReplyOp(r, k, op) ==
  IF k = 0 THEN [r EXCEPT !.deliver = op] ELSE [r EXCEPT !.chain[k] = op]

\* A send handed to the client: sendGroupTextMessage ("text") or
\* sendGroupEditMessage ("edit", of the anchor), with the waitForLeaderAndCsp
\* before it when the client is not ready; status "failed": one of them threw.
ReplySend(type, stage, text, anchor, id, status, k, op, pruned) ==
  [type |-> type, stage |-> stage, text |-> text, anchor |-> anchor, id |-> id,
   status |-> status, op |-> k, source |-> op.source, kind |-> op.kind, pruned |-> pruned]

\* The call returns or throws.
replyOpSettled(r, k) == setReplyOp(r, k, [replyOp(r, k) EXCEPT !.status = "settled"])

\* The call awaits a send: sendGroupTextMessage or sendGroupEditMessage.
replySendStarts(r, k, type, stage, text, anchor, pruned) ==
  LET op == replyOp(r, k) IN
  [setReplyOp(r, k, [op EXCEPT !.status = "running", !.stage = stage, !.nextText = text])
     EXCEPT !.log = Append(@, ReplySend(type, stage, text, anchor, r.nextId, "inflight", k,
                                        op, pruned)),
            !.nextId = @ + 1]

\* A variant of the catch block that throws instead of sending a fresh text.
editFailedNoFallback(r, k, text) == replyOpSettled(r, k)

\* The catch block of sendGroupEvolvingReplyText up to its await.
editFailed(r, k, text) == replySendStarts(r, k, "text", "fallback", text, NoMid, FALSE)

\* sendGroupEvolvingReplyText up to its first awaited send.
sendGroupEvolvingReplyText(r, k) ==
  LET op == replyOp(r, k)
      existingSession == lookupSession(r.session)
      pruned == r.session # NoSession
                /\ pruneGroupEvolvingReplySessions(r.session) = NoSession
      p == [r EXCEPT !.session = pruneGroupEvolvingReplySessions(@)]
      nextGroupText == resolveGroupEvolvingReplyText(existingSession, op.text, op.kind) IN
  IF op.text = <<>> THEN replyOpSettled(r, k)
  ELSE IF /\ op.source = "partial"
          /\ existingSession # NoSession
          /\ Len(existingSession.lastText) > Len(nextGroupText)
          /\ startsWith(existingSession.lastText, nextGroupText)
  THEN replyOpSettled([p EXCEPT !.session.age = 0], k)
  ELSE IF existingSession = NoSession
  THEN replySendStarts(p, k, "text", "anchor", nextGroupText, NoMid, pruned)
  ELSE IF existingSession.lastText = nextGroupText
  THEN replyOpSettled([p EXCEPT !.session.age = 0], k)
  ELSE replySendStarts(p, k, "edit", "edit", nextGroupText, existingSession.anchor, FALSE)

\* The log with the awaited send of call k marked as settled.
replySendSettled(r, k, ok) ==
  [i \in DOMAIN r.log |->
     IF r.log[i].op = k /\ r.log[i].status = "inflight"
     THEN [r.log[i] EXCEPT !.status = IF ok THEN "ok" ELSE "failed"]
     ELSE r.log[i]]

\* The message id the awaited send of call k drew.
replySendId(r, k) ==
  r.log[CHOOSE i \in DOMAIN r.log : r.log[i].op = k /\ r.log[i].status = "inflight"].id

\* sendGroupEvolvingReplyText after an awaited send settled.
sendGroupEvolvingReplyTextResumes(r, k, ok) ==
  LET op == replyOp(r, k)
      id == replySendId(r, k)
      l == [r EXCEPT !.log = replySendSettled(r, k, ok)] IN
  CASE op.stage = "anchor" ->
         IF ok THEN replyOpSettled([l EXCEPT !.session = [anchor |-> id,
                                                         lastText |-> op.nextText,
                                                         age |-> 0]], k)
         ELSE replyOpSettled(l, k)
    [] op.stage = "edit" ->
         IF ok THEN replyOpSettled(IF l.session = NoSession THEN l
                                   ELSE [l EXCEPT !.session.lastText = op.nextText,
                                                  !.session.age = 0], k)
         ELSE editFailed(l, k, op.nextText)
    [] op.stage = "fallback" ->
         IF ok THEN replyOpSettled(IF l.session = NoSession THEN l
                                   ELSE [l EXCEPT !.session.anchor = id,
                                                  !.session.lastText = op.nextText,
                                                  !.session.age = 0], k)
         ELSE replyOpSettled(l, k)

\* A variant of the chain in which a link does not wait for the one before it.
chainLinkReadyUnchained(chain, k) == TRUE

\* groupPartialDispatchChain.then(...): link k runs once link k - 1 has settled.
chainLinkReady(chain, k) == IF k = 1 THEN TRUE ELSE chain[k - 1].status = "settled"

\* A variant of the drain that does not look at the chain.
chainSettledUnawaited(chain) == TRUE

\* `await groupPartialDispatchChain.catch(() => {})` gets past the chain.
chainSettled(chain) == \A k \in DOMAIN chain : chain[k].status = "settled"

\* A variant of queueGroupPartialUpdate's first check that ignores the flag.
finalizedIgnored(r) == FALSE

\* if (groupFinalized) return;
finalized(r) == r.groupFinalized

\* queueGroupPartialUpdate
queueGroupPartialUpdate(r, partialText) ==
  LET deltaChars == IF startsWith(partialText, r.lastGroupPartialText)
                    THEN Len(partialText) - Len(r.lastGroupPartialText)
                    ELSE Len(partialText) IN
  IF finalized(r) THEN r
  ELSE IF partialText = <<>> THEN r
  ELSE IF partialText = r.lastGroupPartialText THEN r
  ELSE IF /\ deltaChars < r.minCharsDelta
          /\ r.sincePartial < DEFAULT_GROUP_EVOLVING_PARTIAL_INTERVAL_MS
  THEN r
  ELSE [r EXCEPT !.lastGroupPartialText = partialText,
                 !.sincePartial = 0,
                 !.chain = Append(@, ReplyOp("partial", partialText, "partial", "queued"))]

\* deliver(payload, deliveryInfo) up to its first await, for a text reply of
\* an evolving group reply.
deliver(r, finalText, kind) ==
  IF finalText = <<>> THEN r
  ELSE IF r.streaming /\ kind = "block" THEN r
  ELSE IF r.streaming /\ kind = "final"
  THEN [r EXCEPT !.groupFinalized = TRUE,
                 !.deliver = [ReplyOp("deliver", finalText, kind, "draining") EXCEPT
                                !.waited = Cardinality({k \in DOMAIN r.chain :
                                                          r.chain[k].status # "settled"})]]
  ELSE sendGroupEvolvingReplyText(
         [r EXCEPT !.deliver = ReplyOp("deliver", finalText, kind, "queued")], 0)

\* handleInboundMessage for a group message with evolving replies enabled,
\* up to dispatchReplyFromConfig; the configuration is read here.
ReplyStart ==
  /\ reply.pc = "idle"
  /\ \E streaming \in BOOLEAN, minCharsDelta \in {1, 2} :
       /\ streaming \/ minCharsDelta = 1
       /\ reply' = [NoReply EXCEPT !.pc = "dispatching", !.streaming = streaming,
                                   !.minCharsDelta = minCharsDelta]

\* effectiveOnPartialReply: the agent has produced more of the reply.
OnPartialReply ==
  /\ reply.pc = "dispatching"
  /\ reply.streaming
  /\ reply.chunks < MaxChunks
  /\ \E text \in ReplyTexts :
       reply' = [queueGroupPartialUpdate(reply, text) EXCEPT !.chunks = @ + 1]

\* The dispatcher calls deliver with a block or the final reply; it makes one
\* call at a time.
Deliver ==
  /\ reply.pc = "dispatching"
  /\ reply.deliver.status \in {"none", "settled"}
  /\ reply.chunks < MaxChunks
  /\ \E text \in ReplyTexts, kind \in {"block", "final"} :
       reply' = [deliver(reply, text, kind) EXCEPT !.chunks = @ + 1]

\* The turn of link k of the partial dispatch chain has come.
ChainLinkRuns ==
  /\ \E k \in DOMAIN reply.chain :
       /\ reply.chain[k].status = "queued"
       /\ chainLinkReady(reply.chain, k)
       /\ reply' = sendGroupEvolvingReplyText(reply, k)

\* deliver goes on after `await groupPartialDispatchChain.catch(() => {})`.
DeliverDrained ==
  /\ reply.deliver.status = "draining"
  /\ chainSettled(reply.chain)
  /\ reply' = sendGroupEvolvingReplyText(reply, 0)

\* The client settles a send: the message id comes back, or the send (or the
\* wait for leadership before it) throws.
ReplySendSettles ==
  /\ \E k \in {0} \cup DOMAIN reply.chain, ok \in BOOLEAN :
       /\ replyOp(reply, k).status = "running"
       /\ reply' = sendGroupEvolvingReplyTextResumes(reply, k, ok)

\* Time passes: more than the session TTL, or the partial interval.
ReplyTick ==
  /\ reply.pc = "dispatching"
  /\ \/ /\ reply.session # NoSession
        /\ reply.session.age <= GROUP_EVOLVING_REPLY_SESSION_TTL_MS
        /\ reply' = [reply EXCEPT !.session.age = GROUP_EVOLVING_REPLY_SESSION_TTL_MS + 1]
     \/ /\ reply.sincePartial < DEFAULT_GROUP_EVOLVING_PARTIAL_INTERVAL_MS
        /\ reply' = [reply EXCEPT !.sincePartial = @ + 1]

\* The finally block of handleInboundMessage: the chain is awaited and the
\* session entry is deleted.
ReplyEnd ==
  /\ reply.pc = "dispatching"
  /\ reply.deliver.status \in {"none", "settled"}
  /\ chainSettled(reply.chain)
  /\ reply' = [reply EXCEPT !.pc = "ended", !.session = NoSession]

replyOnly == <<connVars, csp, ackVars, dedupeVars, wsSent, reflVars, cspObs, deviceVars,
               accountVars, group, rdv, link, hostVars>>

NextReply ==
  \/ ReplyStart /\ UNCHANGED replyOnly
  \/ OnPartialReply /\ UNCHANGED replyOnly
  \/ Deliver /\ UNCHANGED replyOnly
  \/ ChainLinkRuns /\ UNCHANGED replyOnly
  \/ DeliverDrained /\ UNCHANGED replyOnly
  \/ ReplySendSettles /\ UNCHANGED replyOnly
  \/ ReplyTick /\ UNCHANGED replyOnly
  \/ ReplyEnd /\ UNCHANGED replyOnly

SpecReply == Init /\ [][NextReply]_vars

\* The fragments of the worked example of the evolving reply: the anchor A,
\* the partials AB, ABC and AB, and the final ABCD.
Scenario ==
  << [kind |-> "partial", text |-> <<"A">>],
     [kind |-> "partial", text |-> <<"A", "B">>],
     [kind |-> "partial", text |-> <<"A", "B", "C">>],
     [kind |-> "partial", text |-> <<"A", "B">>],
     [kind |-> "final", text |-> <<"A", "B", "C", "D">>] >>

\* handleInboundMessage with partial streaming enabled and minCharsDelta = 1,
\* the value of the documented configuration.
ScenarioStart ==
  /\ reply.pc = "idle"
  /\ reply' = [NoReply EXCEPT !.pc = "dispatching", !.streaming = TRUE,
                              !.minCharsDelta = 1]

\* The agent hands over the next fragment of the example: a partial through
\* effectiveOnPartialReply, the final through deliver.
ScenarioChunk ==
  /\ reply.pc = "dispatching"
  /\ reply.deliver.status \in {"none", "settled"}
  /\ reply.chunks < Len(Scenario)
  /\ LET chunk == Scenario[reply.chunks + 1] IN
     reply' = [(IF chunk.kind = "partial" THEN queueGroupPartialUpdate(reply, chunk.text)
                ELSE deliver(reply, chunk.text, chunk.kind))
                 EXCEPT !.chunks = @ + 1]

NextScenario ==
  \/ ScenarioStart /\ UNCHANGED replyOnly
  \/ ScenarioChunk /\ UNCHANGED replyOnly
  \/ ChainLinkRuns /\ UNCHANGED replyOnly
  \/ DeliverDrained /\ UNCHANGED replyOnly
  \/ ReplySendSettles /\ UNCHANGED replyOnly
  \/ ReplyTick /\ UNCHANGED replyOnly
  \/ ReplyEnd /\ UNCHANGED replyOnly

SpecScenario == Init /\ [][NextScenario]_vars

\* handleInboundMessage runs for an envelope the account's client delivered.
InboundReplyStart ==
  /\ account = "running"
  /\ ~stopped
  /\ sock = "open"
  /\ ScenarioStart

\* An account with a group reply under way: the account's actions leave the
\* evolving-reply table alone, the reply's actions the account.
NextAccountReply ==
  \/ AccountStart
  \/ WsOpen
  \/ HandleServerHello
  \/ AccountServerInfo
  \/ AccountWsClose
  \/ AccountStop
  \/ InboundReplyStart /\ UNCHANGED replyOnly
  \/ ScenarioChunk /\ UNCHANGED replyOnly
  \/ ChainLinkRuns /\ UNCHANGED replyOnly
  \/ DeliverDrained /\ UNCHANGED replyOnly
  \/ ReplySendSettles /\ UNCHANGED replyOnly
  \/ ReplyEnd /\ UNCHANGED replyOnly

SpecAccountReply == Init /\ [][NextAccountReply]_vars

(***************************************************************************)
(* Channel plugin: inbound envelopes (part_005)                            *)
(***************************************************************************)
\* startupReplayGuard.maxWarmupMs of the documented configuration (120,000 ms),
\* in ticks.
STARTUP_MAX_WARMUP_MS == 2

\* msg.type of a message envelope, and whether its text is blank.
MessageTypes == {"text", "groupText", "reaction", "typing"}
MessageBodies == {"plain", "blank"}

\* The reflected frames this part looks at: envelopes that decrypt, in frames
\* that are not ephemeral.
InboundFrames(r) ==
  {f \in ReflectedFrames(r) :
     f.ok /\ f.flags = 0 /\ f.sender \in {NoId, "AAAAAAAA"} /\ f.content # "other"
     /\ f.mid # NoMid}

\* trackSentMessage, below MAX_SENT_TRACKING.
trackSentMessage(a, id) == [a EXCEPT !.sentMessageIds = @ \cup {id}]

\* What is handed to the agent (agent.forwarded keeps the latest): a message (processTextMessage) or reaction
\* events (forwardReactionEventsToAgent), with what the connection had
\* received and how long it had been open at that moment.
Forwarded(a, env, type, kind) ==
  [content |-> env.content, type |-> type, mid |-> env.mid, kind |-> kind,
   dry |-> a.dry, elapsed |-> a.elapsed, own |-> env.mid \in a.sentMessageIds]

\* handleInboundEnvelope for an envelope whose message has the given type and
\* body.
handleInboundEnvelope(a, env, type, body) ==
  LET forward(kind) == [a EXCEPT !.forwarded = {Forwarded(a, env, type, kind)}] IN
  IF env.content = "incomingMessage"
  THEN CASE type = "typing" -> a
         [] type = "reaction" -> IF body = "blank" THEN a ELSE forward("reaction")
         [] OTHER -> IF body = "blank" THEN a ELSE forward("message")
  ELSE IF env.content = "outgoingMessage"
  THEN IF env.mid # NoMid /\ env.mid \in a.sentMessageIds THEN a
       ELSE CASE type = "reaction" -> IF body = "blank" THEN a ELSE forward("reaction")
              [] type = "groupText" -> IF body = "blank" THEN a ELSE forward("message")
              [] OTHER -> a
  ELSE a

\* The onEnvelope callback startAccount gives the client, for the envelopes
\* one handleReflected call surfaces.
onEnvelope(a, envs, type, body) ==
  IF envs = <<>> THEN a ELSE handleInboundEnvelope(a, envs[1], type, body)

\* ws.on('message') -> handleFrame -> case D2M.REFLECTED, with the plugin's
\* onEnvelope callback.
InboundReflected ==
  /\ sock = "open" /\ ws = "sock"
  /\ RxTotal < MaxRx
  /\ \E f \in InboundFrames(NextReflectedId), type \in MessageTypes, body \in MessageBodies :
       LET r == handleReflected(Dedupe, f) IN
         /\ SetDedupe(r.d)
         /\ surfaced' = surfaced \o r.env
         /\ wsSent' = wsSent \o r.out
         /\ rxReflected' = Received(f, r.dup)
         /\ agent' = onEnvelope(agent, r.env, type, body)
  /\ UNCHANGED <<connVars, csp, ackVars, cspObs, group, rdv, link, reply, cspIn, deviceVars,
                 accountVars>>

inboundOnly == <<connVars, csp, ackVars, dedupeVars, wsSent, reflVars, cspObs, group, rdv,
                 link, reply, cspIn, deviceVars, accountVars>>

\* ws.on('message') -> handleFrame -> case D2M.REFLECTION_QUEUE_DRY: the event
\* is emitted; the plugin has no listener for it.
HandleReflectionQueueDry ==
  /\ sock = "open" /\ ws = "sock"
  /\ ~agent.dry
  /\ agent' = [agent EXCEPT !.dry = TRUE]
  /\ UNCHANGED inboundOnly

\* The plugin has sent a message of its own and tracks its id.
TrackSentMessage ==
  /\ \E id \in MsgIds :
       /\ id \notin agent.sentMessageIds
       /\ agent' = trackSentMessage(agent, id)
  /\ UNCHANGED inboundOnly

\* Time passes on the open connection.
InboundTick ==
  /\ sock = "open"
  /\ agent.elapsed < STARTUP_MAX_WARMUP_MS
  /\ agent' = [agent EXCEPT !.elapsed = @ + 1]
  /\ UNCHANGED inboundOnly

NextInbound ==
  \/ Connect
  \/ WsOpen
  \/ HandleReflectionQueueDry
  \/ InboundReflected
  \/ TrackSentMessage
  \/ InboundTick

SpecInbound == Init /\ [][NextInbound]_vars

(***************************************************************************)
(* Channel plugin: direct typing indicators of a running account           *)
(***************************************************************************)
typingOnly == <<connVars, csp, ackVars, dedupeVars, wsSent, reflVars, cspObs, featureVars,
                deviceVars, account, stopped, reconnectTimer, reconnectInFlight, connectP,
                activeClient>>

\* processTextMessage of a direct chat calls beginDirectTyping.
BeginDirectTyping ==
  /\ account = "running" /\ ~stopped /\ sock = "open"
  /\ csp.csn <= MaxSeq
  /\ \E to \in TypingPeers :
       /\ ~typing.sessions[to].active \/ typing.sessions[to].stopTimer
       /\ typing' = beginDirectTyping(typing, to)
  /\ UNCHANGED typingOnly

\* The reply to a direct chat is done: endDirectTyping.
EndDirectTyping ==
  /\ account = "running"
  /\ \E to \in TypingPeers :
       /\ typing.sessions[to].exists /\ ~typing.sessions[to].stopTimer
       /\ typing' = endDirectTyping(typing, to)
  /\ UNCHANGED typingOnly

\* DIRECT_TYPING_STOP_DEBOUNCE_MS after endDirectTyping its timer fires.
TypingStopTimerFires ==
  /\ \E to \in TypingPeers :
       /\ typing.sessions[to].stopTimer
       /\ typing' = stopTimerFired(typing, to)
  /\ UNCHANGED typingOnly

\* The setInterval callback of beginDirectTyping.
TypingRefreshFires ==
  /\ csp.csn <= MaxSeq
  /\ \E to \in TypingPeers :
       /\ typing.sessions[to].refreshTimer
       /\ typing' = sendDirectTypingIndicator(typing, to, TRUE, "refresh")
       /\ typing' # typing
  /\ UNCHANGED typingOnly

\* sendTypingIndicator after `await this.getContactPublicKey`: the container
\* goes to the CspHandler captured before the await; sendDirectTypingIndicator
\* catches what is thrown.
TypingSendResumes ==
  /\ \E e \in typing.pending :
       LET k == sendContainer(Call(IF e.cspOk THEN csp ELSE [csp EXCEPT !.state = "closed"]),
                              CSP_CONTAINER_OUTGOING_MESSAGE, e.to, NoMid)
           s == sendAllProxyData([Mediator EXCEPT !.csp = Handler(k), !.thrown = k.thrown],
                                 k.out) IN
         /\ IF e.cspOk THEN SetMediator(s) ELSE SetMediator(Mediator)
         /\ typing' = [typing EXCEPT
              !.pending = @ \ {e},
              !.finalSent = IF e.cspOk /\ e.by = "stop" /\ ~s.thrown THEN @ \cup {e.to} ELSE @]
  /\ UNCHANGED <<connVars, dedupeVars, reflVars, cspObs, featureVars, deviceVars, account,
                 stopped, reconnectTimer, reconnectInFlight, connectP, activeClient>>

\* An account with one connection, the direct chats it answers, and stop().
NextHost ==
  \/ AccountStart
  \/ WsOpen
  \/ HandleServerHello
  \/ AccountServerInfo
  \/ PromotedToLeader
  \/ HandleProxyFrame
  \/ AccountWsClose
  \/ AccountStop
  \/ BeginDirectTyping
  \/ EndDirectTyping
  \/ TypingStopTimerFires
  \/ TypingRefreshFires
  \/ TypingSendResumes

SpecHost == Init /\ [][NextHost]_vars

(***************************************************************************)
(* MediatorClient: incoming messages on the CSP path                       *)
(***************************************************************************)
\* The handleCspIncomingMessage calls one handleProxyData call starts, one per
\* 'message' event, each waiting in `await this.decodeCspIncomingMessage`.
RECURSIVE cspMessageJobs(_)
cspMessageJobs(events) ==
  IF events = <<>> THEN <<>>
  ELSE IF Head(events).name = "message"
  THEN <<[sender |-> Head(events).id, mid |-> Head(events).mid, status |-> "decoding"]>>
         \o cspMessageJobs(Tail(events))
  ELSE cspMessageJobs(Tail(events))

\* A variant of handleCspIncomingMessage that surfaces what it decoded without
\* consulting the dedupe set.
handleCspIncomingMessageNoDedupe(d, job, decoded) ==
  IF ~decoded THEN [d |-> d, env |-> <<>>, status |-> "undecoded"]
  ELSE [d |-> d,
        env |-> <<[content |-> "incomingMessage", sender |-> normalizeIdentity(job.sender),
                   mid |-> job.mid, via |-> "csp"]>>,
        status |-> "surfaced"]

\* handleCspIncomingMessage after its await: [d |-> the dedupe state, env |->
\* the envelope surfaced, if any, status |-> how the call ended].
handleCspIncomingMessage(d, job, decoded) ==
  IF ~decoded THEN [d |-> d, env |-> <<>>, status |-> "undecoded"]
  ELSE LET r == recordIncomingMessage(d, job.sender, job.mid) IN
       IF ~r.fresh THEN [d |-> r.d, env |-> <<>>, status |-> "duplicate"]
       ELSE [d |-> r.d,
             env |-> <<[content |-> "incomingMessage", sender |-> normalizeIdentity(job.sender),
                        mid |-> job.mid, via |-> "csp"]>>,
             status |-> "surfaced"]

\* ws.on('message') -> handleFrame -> case D2M.PROXY, carrying an incoming
\* message for the handler that is ready: the listeners of handleProxyFrame
\* run, and csp.on('message') starts handleCspIncomingMessage.
HandleProxyIncoming ==
  /\ sock = "open"
  /\ csp.state = "ready"
  /\ csp.ssn <= MaxSeq
  /\ Len(csp.buffer) < MaxBuffer
  /\ \E u \in {v \in ProxyUnits(csp.ssn) :
                 /\ v.body = "incoming" /\ v.seq = csp.ssn /\ v.mid # NoMid
                 /\ v.flags = 0 /\ v.id = "AAAAAAAA"} :
       /\ SetMediator(handleProxyFrame(Mediator, u))
       /\ cspIn' = cspIn \o cspMessageJobs(handleProxyData(Call(csp), u).ev)
  /\ UNCHANGED <<connVars, dedupeVars, reflVars, cspObs, group, rdv, link, reply, agent,
                 deviceVars, accountVars>>

\* decodeCspIncomingMessage settles, for any of the calls under way: with the
\* decoded message or with null.
CspIncomingDecoded ==
  /\ \E i \in DOMAIN cspIn, decoded \in BOOLEAN :
       /\ cspIn[i].status = "decoding"
       /\ LET r == handleCspIncomingMessage(Dedupe, cspIn[i], decoded) IN
            /\ SetDedupe(r.d)
            /\ surfaced' = surfaced \o r.env
            /\ cspIn' = [cspIn EXCEPT ![i].status = r.status]
  /\ UNCHANGED <<connVars, csp, ackVars, wsSent, rxReflected, cspObs, group, rdv, link, reply,
                 agent, deviceVars, accountVars>>

\* The CSP handshake as the chat server answers it.
HandshakeFrame == csp.state # "ready" /\ HandleProxyFrame

\* A reflected incomingMessage that decrypts, with a message id and a sender in
\* canonical form, in a frame that is not ephemeral, once the CSP session is up.
HandleReflectedPlainIncoming ==
  /\ csp.state = "ready"
  /\ \E f \in {g \in ReflectedFrames(NextReflectedId) :
              /\ g.ok /\ g.content = "incomingMessage" /\ g.mid # NoMid
              /\ g.sender \in Identities /\ g.flags = 0} :
       HandleReflectedFrame(f)

NextBothPaths ==
  \/ Connect
  \/ WsOpen
  \/ leader = FALSE /\ PromotedToLeader
  \/ HandshakeFrame
  \/ HandleProxyIncoming
  \/ CspIncomingDecoded
  \/ HandleReflectedPlainIncoming

SpecBothPaths == Init /\ [][NextBothPaths]_vars

(***************************************************************************)
(* Properties of the CSP handler (SpecCsp)                                 *)
(***************************************************************************)
FailedServerDecrypts ==
  {i \in DOMAIN nonceLog : nonceLog[i].dir = "server" /\ ~nonceLog[i].ok}

\* C9: no CSP nonce is used twice: within a direction no sequence number is
\* used for two boxes, the numbers start at 1 and only increase, and a failed
\* decrypt still consumes the server sequence number it was tried under.
C9_NonceNeverReused ==
  /\ \A i, j \in DOMAIN nonceLog :
       (i < j /\ nonceLog[i].dir = nonceLog[j].dir) => nonceLog[i].seq < nonceLog[j].seq
  /\ \A i \in DOMAIN nonceLog : nonceLog[i].seq >= 1
  /\ \A i \in FailedServerDecrypts : csp.ssn > nonceLog[i].seq

\* C10: a failed CSP decrypt, in the ServerHello, the LoginAck or the steady
\* state, is fatal: the handler is closed and the failure is reported with an
\* 'error' event.
C10_DecryptFailureIsFatal ==
  FailedServerDecrypts # {} =>
    /\ csp.state = "closed"
    /\ \E i \in DOMAIN cspEvents : cspEvents[i].name = "error"

(***************************************************************************)
(* Properties of reflected-frame handling (Spec)                           *)
(***************************************************************************)
ReflectedAcksSent(reflectedId) ==
  Cardinality({i \in DOMAIN wsSent : wsSent[i] = ReflectedAck(reflectedId)})

Deduped(f) ==
  /\ f.ok
  /\ f.content = "incomingMessage"
  /\ normalizeIdentity(f.sender) # "invalid"
  /\ f.mid # NoMid

\* C2: a reflected incomingMessage whose (sender identity, message id) pair is
\* already in the dedupe set is not surfaced; one whose pair is not in the set
\* is surfaced once and its pair is then in the set.
C2_DuplicateNotSurfaced ==
  [][\A f \in ReflectedFrames(NextReflectedId) :
       (Deduped(f) /\ HandleReflectedFrame(f)) =>
         IF <<normalizeIdentity(f.sender), f.mid>> \in seenIncomingMessageKeys
         THEN surfaced' = surfaced
         ELSE /\ surfaced' = Append(surfaced, Envelope(f, "reflected"))
              /\ <<normalizeIdentity(f.sender), f.mid>> \in seenIncomingMessageKeys']_vars

\* The same message arrived twice, the second time with the sender in lower
\* case: it was surfaced once.
C2_Witness ==
  /\ rxReflected.dup = 1
  /\ RxTotal = 2
  /\ seenIncomingMessageKeys = {<<"AAAAAAAA", 1>>}
  /\ Len(surfaced) = 1
  /\ surfaced[1].content = "incomingMessage" /\ surfaced[1].sender = "AAAAAAAA"

WellFormed(f) ==
  f.ok /\ (f.content = "incomingMessage" => normalizeIdentity(f.sender) # "invalid")

\* C3 as stated: a Reflected frame with the ephemeral flag set has its
\* envelope surfaced and is never acknowledged.
C3_EphemeralSurfacedNeverAcked ==
  [][\A f \in ReflectedFrames(NextReflectedId) :
       (isEphemeral(f) /\ WellFormed(f) /\ HandleReflectedFrame(f)) =>
         /\ surfaced' = Append(surfaced, Envelope(f, "reflected"))
         /\ wsSent' = wsSent]_vars

Surfaceable(f) ==
  /\ WellFormed(f)
  /\ Deduped(f) => <<normalizeIdentity(f.sender), f.mid>> \notin seenIncomingMessageKeys

\* C3 amended: a Reflected frame with the ephemeral flag set is never
\* acknowledged; its envelope is surfaced unless it fails to decrypt or decode
\* or is an incomingMessage already in the dedupe set.
C3_EphemeralNeverAcked ==
  [][\A f \in ReflectedFrames(NextReflectedId) :
       (isEphemeral(f) /\ HandleReflectedFrame(f)) =>
         /\ wsSent' = wsSent
         /\ surfaced' = IF Surfaceable(f) THEN Append(surfaced, Envelope(f, "reflected"))
                        ELSE surfaced]_vars

\* A message was surfaced and acknowledged, then arrived again in an ephemeral
\* frame: skipped as a duplicate, not acknowledged.
C3_Witness ==
  /\ rxReflected.eph = 1
  /\ rxReflected.dup = 1
  /\ RxTotal = 2
  /\ Len(surfaced) = 1
  /\ Len(wsSent) = 1 /\ wsSent[1].type = "REFLECTED_ACK"

(***************************************************************************)
(* Properties of the send paths and of teardown (SpecSend, SpecWait)       *)
(***************************************************************************)
Completed(c) == calls[c].pc \in {"done", "failed"}

\* C4: every outgoing message dispatched via CSP eventually completes: its
\* OUTGOING_MESSAGE_ACK arrives before the timeout and the send succeeds, or
\* the send fails.
C4_CspSendCompletes ==
  \A c \in Callers : (calls[c].pc = "awaitCspAck") ~> Completed(c)

\* A message was reflected and dispatched via CSP, no ack came, and the send
\* failed with the connection and the CSP session still up.
C4_Witness ==
  \E c \in Callers :
    /\ calls[c].pc = "failed"
    /\ calls[c].reflectP = "resolved" /\ calls[c].cspP = "rejected"
    /\ sock = "open" /\ csp.state = "ready" /\ leader

NewlyResolved == {c \in Callers : calls[c].reflectP # "resolved"
                                    /\ calls'[c].reflectP = "resolved"}

\* C5: a reflect call resolves only when a ReflectAck carrying its own reflect
\* id is handled while its entry is pending (within the 15 s of its timer); a
\* ReflectAck resolves at most one call; an entry that leaves the table without
\* its ReflectAck rejects the call.
C5_ReflectAckResolvesOwnCall ==
  [][/\ \A c \in NewlyResolved :
          /\ calls[c].reflectP = "pending"
          /\ calls[c].rid \in DOMAIN pendingReflectAcks
          /\ pendingReflectAcks[calls[c].rid].by = c
          /\ pendingReflectAcks[calls[c].rid].ttl \in 0 .. REFLECT_ACK_TIMEOUT_MS
          /\ HandleReflectAckFrame(calls[c].rid)
     /\ Cardinality(NewlyResolved) <= 1
     /\ \A r \in DOMAIN pendingReflectAcks :
          (r \notin DOMAIN pendingReflectAcks' \/ pendingReflectAcks'[r].by # pendingReflectAcks[r].by)
            => calls'[pendingReflectAcks[r].by].reflectP =
                 IF HandleReflectAckFrame(r) THEN "resolved" ELSE "rejected"]_vars

\* Two reflect calls were pending; the ack of the second arrived and resolved
\* it while the first still waits.
C5_Witness ==
  /\ calls[1].reflectP = "pending" /\ calls[1].rid \in DOMAIN pendingReflectAcks
  /\ calls[2].reflectP = "resolved" /\ calls[2].rid # calls[1].rid

CspClosedByError == csp.state \notin {"none", "closed"} /\ csp'.state = "closed"

AllRejected(table, field) ==
  \A k \in DOMAIN table : calls'[table[k].by][field] = "rejected"

\* C6 as stated: on an unexpected close of the mediator WebSocket or of the
\* CSP connection every pending ack is rejected and no entry remains in either
\* pending-ack table.
C6_CloseRejectsAllPendingAcks ==
  [][(WsClose \/ CspClosedByError) =>
       /\ pendingReflectAcks' = NoPending
       /\ pendingOutgoingMessageAcks' = NoPending
       /\ AllRejected(pendingReflectAcks, "reflectP")
       /\ AllRejected(pendingOutgoingMessageAcks, "cspP")]_vars

\* C6 amended: a close of the mediator WebSocket rejects every pending ack and
\* empties both tables; a CSP handler error rejects and removes the pending
\* outgoing-message acks only and leaves the reflect table as it is.
C6_CloseRejectsPendingAcksOfItsLayer ==
  [][/\ WsClose =>
          /\ pendingReflectAcks' = NoPending
          /\ pendingOutgoingMessageAcks' = NoPending
          /\ AllRejected(pendingReflectAcks, "reflectP")
          /\ AllRejected(pendingOutgoingMessageAcks, "cspP")
     /\ CspClosedByError =>
          /\ pendingOutgoingMessageAcks' = NoPending
          /\ AllRejected(pendingOutgoingMessageAcks, "cspP")
          /\ pendingReflectAcks' = pendingReflectAcks]_vars

\* The CSP handler failed while a send waited for its reflect ack: the CSP ack
\* was rejected, the reflect ack is still pending.
C6_Witness ==
  /\ csp.state = "closed"
  /\ \E c \in Callers :
       /\ calls[c].pc = "awaitReflect"
       /\ calls[c].cspP = "rejected"
       /\ calls[c].reflectP = "pending"
       /\ calls[c].rid \in DOMAIN pendingReflectAcks
  /\ pendingOutgoingMessageAcks = NoPending

\* C7: disconnect cancels every pending timer and rejects every waiter: the
\* reflect acks, the CSP acks, and the waitForLeaderAndCsp / waitForCspReady
\* calls.
C7_DisconnectRejectsEveryWaiter ==
  [][Disconnect =>
       /\ pendingReflectAcks' = NoPending
       /\ pendingOutgoingMessageAcks' = NoPending
       /\ \A w \in WaiterIds : waiters'[w].st # "waiting"]_vars

IsReflect(fr, to, mid) == fr.type = "REFLECT" /\ fr.id = to /\ fr.mid = mid

IsOutgoingMessage(fr) ==
  fr.type = "PROXY" /\ fr.kind = "container" /\ fr.ctype = CSP_CONTAINER_OUTGOING_MESSAGE

\* C8: on the direct CSP path the REFLECT frame of a message is sent before
\* its container 0x01 is handed to CSP (and only after the reflect ack), and
\* the send completes only after both the reflect ack and the CSP ack.
C8_ReflectBeforeCsp ==
  /\ \A j \in DOMAIN wsSent :
       IsOutgoingMessage(wsSent[j]) =>
         \E i \in 1 .. (j - 1) : IsReflect(wsSent[i], wsSent[j].id, wsSent[j].mid)
  /\ \A c \in Callers :
       /\ calls[c].pc = "awaitCspAck" => calls[c].reflectP = "resolved"
       /\ (calls[c].pc = "done" /\ calls[c].cspP # "none") =>
            (calls[c].reflectP = "resolved" /\ calls[c].cspP = "resolved")

\* A direct send completed: REFLECT, then the container, both acks received.
C8_Witness ==
  \E c \in Callers :
    /\ calls[c].pc = "done" /\ calls[c].cspP = "resolved"
    /\ \E i, j \in DOMAIN wsSent :
         /\ i < j
         /\ IsReflect(wsSent[i], calls[c].to, calls[c].mid)
         /\ IsOutgoingMessage(wsSent[j]) /\ wsSent[j].mid = calls[c].mid

(***************************************************************************)
(* The CSP handshake (SpecCsp)                                             *)
(***************************************************************************)
\* The containers of type ctype among the frames sent.
ContainersSent(ctype) ==
  {i \in DOMAIN wsSent : wsSent[i].type = "PROXY" /\ wsSent[i].kind = "container"
                            /\ wsSent[i].ctype = ctype}

\* The step on which a valid LoginAck, after a valid ServerHello, completes the
\* handshake.
HandshakeCompletes == csp.state = "waitingLoginAck" /\ csp'.state = "ready"

\* C11 as stated: when the handshake completes the client sequence number is
\* 3, the server sequence number is 3, the phase is Ready and exactly one
\* UnblockIncomingMessages container has been sent.
C11_HandshakeEndsAtThreeThree ==
  [][HandshakeCompletes =>
       /\ csp'.csn = 3
       /\ csp'.ssn = 3
       /\ Cardinality(ContainersSent(CSP_CONTAINER_UNBLOCK_INCOMING)') = 1]_vars

\* C11 amended: when the handshake completes the client sequence number is 4
\* (two login boxes and the UnblockIncomingMessages container each used one),
\* the server sequence number is 3, the phase is Ready and exactly one
\* UnblockIncomingMessages container has been sent.
C11_HandshakeEndsAtFourThree ==
  [][HandshakeCompletes =>
       /\ csp'.csn = 4
       /\ csp'.ssn = 3
       /\ Cardinality(ContainersSent(CSP_CONTAINER_UNBLOCK_INCOMING)') = 1]_vars

\* The handshake has completed and nothing was sent after it.
C11_Witness ==
  /\ csp.state = "ready"
  /\ cspEvents # <<>> /\ cspEvents[Len(cspEvents)].name = "ready"
  /\ wsSent # <<>> /\ wsSent[Len(wsSent)].ctype = CSP_CONTAINER_UNBLOCK_INCOMING
  /\ csp.csn = 4 /\ csp.ssn = 3

(***************************************************************************)
(* The lifetime of the CSP session (SpecWait)                              *)
(***************************************************************************)
\* The CSP session is handshaking or Ready.
CspAlive == csp.state \in {"waitingServerHello", "waitingLoginAck", "ready"}

\* C12: a CSP session is alive (handshaking or Ready) only while this device
\* is marked leader on an open mediator connection; so a step that closes the
\* connection, or clears the leader mark, leaves no CSP session alive.
C12_CspAliveOnlyAsLeaderOnOpenConnection ==
  CspAlive => leader /\ sock = "open" /\ ws = "sock"

\* A CSP session became Ready (a waiter was resolved by it) and the connection
\* then closed: no session is alive.
C12_Witness ==
  /\ sock = "closed" /\ ~leader /\ ~CspAlive
  /\ waiters[1].st = "resolved"

(***************************************************************************)
(* Acknowledging incoming CSP messages (SpecCsp)                           *)
(***************************************************************************)
\* The IncomingMessage containers received from identity i with message id m
\* whose flags do not include bit 0x04.
IncomingToAck(i, m) ==
  {k \in DOMAIN cspEvents :
     /\ cspEvents[k].name = "message" /\ cspEvents[k].id = i /\ cspEvents[k].mid = m
     /\ (cspEvents[k].flags = NoFlags \/ (cspEvents[k].flags \div 4) % 2 = 0)}

\* The containers of type ctype sent that name identity i and message id m.
AcksSent(ctype, i, m) ==
  {k \in ContainersSent(ctype) : wsSent[k].id = i /\ wsSent[k].mid = m}

\* C13: for every IncomingMessage container received whose flags do not
\* include bit 0x04 the client has sent exactly one IncomingMessageAck
\* container of type 0x82 naming that sender and message id, and none for a
\* container whose flags include the bit.
C13_IncomingMessageAckedAs0x82 ==
  \A i \in Identities, m \in MsgIds :
    Cardinality(AcksSent(CSP_CONTAINER_INCOMING_MESSAGE_ACK, i, m))
      = Cardinality(IncomingToAck(i, m))

(***************************************************************************)
(* Reflected outgoing messages (Spec)                                      *)
(***************************************************************************)
\* A decoded outgoingMessage envelope that carries a message id.
OutgoingWithId(f) == f.ok /\ f.content = "outgoingMessage" /\ f.mid # NoMid

\* An outgoingMessage envelope with message id mid has been surfaced.
OutgoingSurfaced(mid) ==
  \E i \in DOMAIN surfaced :
    surfaced[i].content = "outgoingMessage" /\ surfaced[i].mid = mid

\* C14 as stated: a reflected outgoingMessage envelope that carries a message
\* id is checked against the dedupe set, and when it is a duplicate (its
\* message id was handled before) it is not surfaced.
C14_DuplicateOutgoingNotSurfaced ==
  [][\A f \in ReflectedFrames(NextReflectedId) :
       (OutgoingWithId(f) /\ OutgoingSurfaced(f.mid) /\ HandleReflectedFrame(f)) =>
         surfaced' = surfaced]_vars

\* C14 amended: a reflected outgoingMessage envelope is not checked against
\* the dedupe set: whenever it decrypts and decodes it is surfaced, duplicate
\* or not, and the dedupe set and its file stay as they were.
C14_OutgoingSurfacedWithoutDedupe ==
  [][\A f \in ReflectedFrames(NextReflectedId) :
       (OutgoingWithId(f) /\ HandleReflectedFrame(f)) =>
         /\ surfaced' = Append(surfaced, Envelope(f, "reflected"))
         /\ UNCHANGED dedupeVars]_vars

\* The same outgoing message arrived twice and was surfaced twice.
C14_Witness ==
  /\ Len(surfaced) = 2
  /\ \A i \in {1, 2} : surfaced[i].content = "outgoingMessage" /\ surfaced[i].mid = 1
  /\ seenIncomingMessageKeys = {}

C16_SlotStateNewOnFirstConnectOnly ==
  [][HandleServerHello =>
       wsSent'[Len(wsSent')].kind = IF deviceIdSaved THEN "EXISTING" ELSE "NEW"]_vars

(***************************************************************************)
(* The reconnect loop (SpecAccountFair)                                    *)
(***************************************************************************)
\* The running account's connection is closed: by an unexpected close, or by
\* the close that ends a failed reconnect attempt, and no attempt is under way.
AccountDown == account = "running" /\ ~stopped /\ sock = "closed" /\ ~reconnectInFlight

\* C17: after an unexpected mediator close while the account is not stopped,
\* and after every failed reconnect attempt, a reconnect attempt follows (the
\* timer callback calls connect()) unless the account is stopped first; the
\* timer is set to the backoff whenever the account is down.
C17_ReconnectAttemptsContinue ==
  /\ AccountDown ~> (reconnectInFlight \/ stopped)
  /\ [](AccountDown => reconnectTimer \in 0..RECONNECT_DELAY_MS)

\* A reconnect attempt has failed (its ClientHello was never sent) and the
\* next attempt is scheduled.
C17_Witness ==
  /\ AccountDown
  /\ deviceIdSaved
  /\ ClientHellosSent = {}
  /\ reconnectTimer = RECONNECT_DELAY_MS

(***************************************************************************)
(* The dedupe set and its file (SpecDedupe)                                *)
(***************************************************************************)
KeysOf(order) == {order[i] : i \in DOMAIN order}

\* C18: the dedupe set never holds more keys than its capacity (4,096 in the
\* source); a new key added at capacity evicts the earliest-inserted key, and
\* a lookup that finds its key changes neither the contents nor the order.
C18_DedupeSetBoundedFifo ==
  /\ [](/\ Cardinality(seenIncomingMessageKeys) <= MAX_INCOMING_MESSAGE_DEDUPE
         /\ Len(seenIncomingMessageOrder) <= MAX_INCOMING_MESSAGE_DEDUPE
         /\ seenIncomingMessageKeys = KeysOf(seenIncomingMessageOrder))
  /\ [][\A f \in ReflectedFrames(NextReflectedId) :
          (Deduped(f) /\ HandleReflectedFrame(f)) =>
            LET key == <<normalizeIdentity(f.sender), f.mid>> IN
            IF key \in seenIncomingMessageKeys
            THEN /\ seenIncomingMessageKeys' = seenIncomingMessageKeys
                 /\ seenIncomingMessageOrder' = seenIncomingMessageOrder
            ELSE /\ seenIncomingMessageOrder' =
                      IF Len(seenIncomingMessageOrder) = MAX_INCOMING_MESSAGE_DEDUPE
                      THEN Append(Tail(seenIncomingMessageOrder), key)
                      ELSE Append(seenIncomingMessageOrder, key)
                 /\ seenIncomingMessageKeys' = KeysOf(seenIncomingMessageOrder')]_vars

\* The set is full and a message that was surfaced has been evicted from it.
C18_Witness ==
  /\ Len(seenIncomingMessageOrder) = MAX_INCOMING_MESSAGE_DEDUPE
  /\ \E i \in DOMAIN surfaced :
       /\ surfaced[i].content = "incomingMessage" /\ surfaced[i].mid # NoMid
       /\ <<surfaced[i].sender, surfaced[i].mid>> \notin seenIncomingMessageKeys
  /\ proc = "up"

\* The identities recordIncomingMessage accepts.
ValidRawIdentities == {i \in RawIdentities : normalizeIdentity(i) # "invalid"}

\* C19: dedupe decisions survive a restart: a fresh client instance on the
\* data directory of a client that was disconnected reports every persisted
\* key as a duplicate and every other key as new, exactly as the old instance
\* would have.
C19_DecisionsSurviveRestart ==
  [][(Restart /\ proc = "up" /\ ws = "null") =>
       \A i \in ValidRawIdentities, m \in MsgIds :
         /\ recordIncomingMessage(Dedupe', i, m).fresh = recordIncomingMessage(Dedupe, i, m).fresh
         /\ recordIncomingMessage(Dedupe', i, m).fresh
              <=> buildIncomingMessageKey(i, m) \notin KeysOf(dedupeFile)]_vars

\* A fresh instance has loaded a full set of keys from the file.
C19_Witness ==
  /\ sock = "none" /\ ws = "null" /\ proc = "up"
  /\ Len(seenIncomingMessageOrder) = MAX_INCOMING_MESSAGE_DEDUPE
  /\ seenIncomingMessageOrder = dedupeFile

\* C20: the dedupe state file is replaced atomically: at any moment, a crash
\* in the middle of a persist included, the file holds either the complete
\* previous state or the complete new state.
C20_FileCompleteOldOrNew ==
  [][dedupeFile' = dedupeFile \/ dedupeFile' = seenIncomingMessageOrder']_vars

(***************************************************************************)
(* C21                                                                     *)
(***************************************************************************)
\* The id handed out by the step, when the counter moved.
AllocatedReflectId == (nextReflectId' + ReflectIdSpace - 1) % ReflectIdSpace

\* The callers whose reflect is outstanding.
OutstandingReflects == {c \in Callers : calls[c].reflectP = "pending"}

\* C21: reflect ids come from a counter that only moves forward and wraps at the
\* end of its range; the id a step allocates is the first one from the counter
\* on that has no entry in the pending table, and the counter is left just
\* after it; so every outstanding reflect owns the table entry of its id and
\* no two outstanding reflects share an id.
C21_ReflectIdsDistinct ==
  [][/\ nextReflectId' # nextReflectId =>
          /\ AllocatedReflectId \notin DOMAIN pendingReflectAcks
          /\ \A k \in 0..(ReflectIdSpace - 1) :
               k < (AllocatedReflectId - nextReflectId + ReflectIdSpace) % ReflectIdSpace
                 => (nextReflectId + k) % ReflectIdSpace \in DOMAIN pendingReflectAcks
     /\ \A c \in OutstandingReflects' :
          /\ calls'[c].rid \in DOMAIN pendingReflectAcks'
          /\ pendingReflectAcks'[calls'[c].rid].by = c
     /\ \A c, d \in OutstandingReflects' : c # d => calls'[c].rid # calls'[d].rid]_vars

\* The counter went round: the first caller's reflect with id 1 is outstanding,
\* the id before it was sent after it on the same socket, and the second
\* caller's outstanding reflect got the id after it.
C21_Witness ==
  /\ OutstandingReflects = Callers
  /\ calls[1].rid = 1 /\ calls[2].rid = 2
  /\ \E i, j \in DOMAIN wsSent :
       /\ i < j
       /\ wsSent[i].type = "REFLECT" /\ wsSent[i].seq = 1
       /\ wsSent[j].type = "REFLECT" /\ wsSent[j].seq = 0
  /\ wsSent[Len(wsSent)].type = "REFLECT" /\ wsSent[Len(wsSent)].seq = 2

(***************************************************************************)
(* C22                                                                     *)
(***************************************************************************)
\* C22: the envelope a group send reflects carries one nonce for each recipient
\* of the fan-out; the containers are sent after it, and the i-th container
\* goes to the i-th recipient sealed under the i-th nonce of the envelope; a
\* fan-out that completes has sent as many containers as the envelope has
\* nonces.
C22_EnvelopeNoncesMatchFanOut ==
  /\ group.reflected => Len(group.envelope) = Len(group.plans)
  /\ group.containers # <<>> => group.reflected
  /\ Len(group.containers) <= Len(group.envelope)
  /\ \A i \in DOMAIN group.containers :
       /\ group.containers[i].to = group.plans[i]
       /\ group.containers[i].nonce = group.envelope[i]
  /\ \A i, j \in DOMAIN group.envelope : i # j => group.envelope[i] # group.envelope[j]
  /\ group.pc = "done" /\ group.containers # <<>>
       => Len(group.containers) = Len(group.envelope)

\* A group text to two members, given with a duplicate and the own identity,
\* went out to both and was acknowledged.
C22_Witness ==
  /\ group.pc = "done"
  /\ group.kind = "text"
  /\ group.plans = <<"BBBBBBBB", "AAAAAAAA">>
  /\ Len(group.containers) = 2

(***************************************************************************)
(* C23, C24: device join                                                   *)
(***************************************************************************)
\* The Begin, BlobData and EssentialData messages runDeviceJoin took, in order.
JoinMessages ==
  SelectSeq(link.handled, LAMBDA c : c \in {"begin", "blobData", "essentialData"})

\* One Begin, then BlobData only, up to message n.
BeginThenBlobs(n) ==
  /\ n >= 1
  /\ JoinMessages[1] = "begin"
  /\ \A i \in 2..n : JoinMessages[i] = "blobData"

\* C23: a device join returns successfully only after exactly one Begin
\* first, then zero or more BlobData, then one EssentialData; any other order
\* of these messages makes the join throw.
C23_JoinOrderEnforced ==
  /\ link.state = "done" =>
       /\ JoinMessages[Len(JoinMessages)] = "essentialData"
       /\ BeginThenBlobs(Len(JoinMessages) - 1)
  /\ link.state # "done" /\ link.pc = "join" /\ JoinMessages # <<>> =>
       BeginThenBlobs(Len(JoinMessages))

\* C24: Registered is sent once, and only when the identity material the join
\* received is on disk.
C24_PersistedBeforeRegistered ==
  /\ \A i \in DOMAIN rdv.sent :
       rdv.sent[i].body = "registered" => {"identity.json", "contacts.json"} \subseteq link.disk
  /\ Cardinality({i \in DOMAIN rdv.sent : rdv.sent[i].body = "registered"}) <= 1

(***************************************************************************)
(* C25, C26: rendezvous session                                            *)
(***************************************************************************)
\* C25: once a frame failed to decrypt or did not fit the state, no further
\* frame is processed and the connection is not open any more.
C25_FailureTerminatesSession ==
  rdv.failures > 0 => rdv.afterFailure = 0 /\ rdv.sock # "open"

\* The nonces built in one direction, in order.
RdvNonces(dir) == SelectSeq(rdv.nonces, LAMBDA n : n.dir = dir)

\* C26: in each direction the i-th nonce of the session carries sequence number
\* i, whether the frame opened or not, under the auth key up to the Auth
\* message and under the transport key afterwards; the transport ciphers go on
\* from the numbers the auth ciphers had reached.
C26_SequenceNumbersContinue ==
  /\ \A dir \in {"encrypt", "decrypt"} :
       \A i \in DOMAIN RdvNonces(dir) :
         /\ RdvNonces(dir)[i].sn = i
         /\ i > 1 /\ RdvNonces(dir)[i - 1].key \in {"ridtk", "rrdtk"}
              => RdvNonces(dir)[i].key = RdvNonces(dir)[i - 1].key
  /\ rdv.state \in {"awaiting-nominate", "nominated"} =>
       /\ rdv.ridtkEncrypt = RendezvousCipher("ridtk", Len(RdvNonces("encrypt")) + 1)
       /\ rdv.rrdtkDecrypt = RendezvousCipher("rrdtk", Len(RdvNonces("decrypt")) + 1)
  /\ rdv.state \in {"awaiting-hello", "awaiting-auth"} =>
       /\ rdv.ridEncrypt = RendezvousCipher("ridak", Len(RdvNonces("encrypt")) + 1)
       /\ rdv.rrdDecrypt = RendezvousCipher("rrdak", Len(RdvNonces("decrypt")) + 1)

\* A session that switched keys after the Auth message, lost a frame under the
\* transport key and sent Registered under the transport key.
C26_Witness ==
  /\ rdv.state = "nominated"
  /\ rdv.failures > 0
  /\ \E i \in DOMAIN rdv.nonces : rdv.nonces[i] = [dir |-> "decrypt", key |-> "rrdtk", sn |-> 5]
  /\ \E i \in DOMAIN rdv.sent : rdv.sent[i] = RdvFrame("ridtk", 2, "registered")

(***************************************************************************)
(* Properties of the evolving group reply (SpecReply)                      *)
(***************************************************************************)
\* Entry i of the log is a group text that was delivered.
TextSent(i) == reply.log[i].type = "text" /\ reply.log[i].status = "ok"

\* The message id of the last group text delivered before entry i, or NoMid.
AnchorBefore(i) ==
  LET sent == {j \in 1..(i - 1) : TextSent(j)} IN
  IF sent = {} THEN NoMid
  ELSE reply.log[CHOOSE j \in sent : \A h \in sent : h <= j].id

\* Every edit references the message id of the last group text delivered.
EditsReferenceAnchor ==
  \A i \in DOMAIN reply.log :
    reply.log[i].type = "edit" =>
      AnchorBefore(i) # NoMid /\ reply.log[i].anchor = AnchorBefore(i)

\* Claim C27 as stated: the first send of a reply is a fresh group text, no
\* chunk after a delivered group text is sent as another fresh group text
\* unless an edit failed, and every edit references the anchor's message id.
C27_OneFreshTextPerReply ==
  /\ reply.log # <<>> => reply.log[1].type = "text"
  /\ \A i \in DOMAIN reply.log :
       reply.log[i].stage = "anchor" => AnchorBefore(i) = NoMid
  /\ EditsReferenceAnchor

\* Claim C27, amended: the first send of a reply is a fresh group text; a
\* chunk after a delivered group text is sent as another fresh group text only
\* after an edit failure, or when the session entry had expired and no group
\* text has been delivered since; every edit references the message id of the
\* last group text delivered.
C27_FreshTextOnlyWithoutSession ==
  /\ reply.log # <<>> => reply.log[1].type = "text"
  /\ \A i \in DOMAIN reply.log :
       reply.log[i].stage = "anchor" =>
         \/ AnchorBefore(i) = NoMid
         \/ \E j \in 1..i : /\ reply.log[j].pruned
                            /\ \A h \in j..(i - 1) : ~TextSent(h)
  /\ EditsReferenceAnchor

\* A group text became the anchor, an edit of it was delivered, the session
\* expired, and the next chunk went out as a fresh group text.
C27_Witness ==
  \E i, j, h \in DOMAIN reply.log :
    /\ i < j /\ j < h
    /\ TextSent(i)
    /\ reply.log[j].type = "edit" /\ reply.log[j].status = "ok"
    /\ reply.log[j].anchor = reply.log[i].id
    /\ reply.log[h].stage = "anchor" /\ reply.log[h].pruned

\* Claim C28: partial updates are dispatched one at a time in queue order: a
\* link of the chain has started only if every link queued before it has
\* settled, at most one send of a partial update is in flight, and the sends
\* of partial updates are made in the order the updates were queued.
C28_PartialsOneAtATime ==
  /\ \A k \in DOMAIN reply.chain :
       reply.chain[k].status \in {"running", "settled"} =>
         \A j \in 1..(k - 1) : reply.chain[j].status = "settled"
  /\ Cardinality({i \in DOMAIN reply.log :
                    reply.log[i].source = "partial" /\ reply.log[i].status = "inflight"}) <= 1
  /\ \A i, j \in DOMAIN reply.log :
       (i < j /\ reply.log[i].source = "partial" /\ reply.log[j].source = "partial")
         => reply.log[i].op <= reply.log[j].op

\* The edit of one partial update is in flight while later partial updates
\* wait in the queue.
C28_Witness ==
  /\ Len(reply.chain) >= 3
  /\ reply.chain[1].status = "settled"
  /\ reply.chain[2].status = "running" /\ reply.chain[2].stage = "edit"
  /\ reply.chain[3].status = "queued"

\* Entry i of the log is a send of the final text of a streamed reply.
FinalSend(i) ==
  reply.streaming /\ reply.log[i].source = "deliver" /\ reply.log[i].kind = "final"

\* Claim C29: the final text of a streamed reply is sent only after every
\* partial update queued before it has settled, and no partial update is
\* queued or sent after it.
C29_FinalDrainsPartials ==
  /\ (reply.streaming /\ reply.deliver.kind = "final"
        /\ reply.deliver.status \in {"running", "settled"}) => chainSettled(reply.chain)
  /\ \A i, j \in DOMAIN reply.log :
       (i < j /\ FinalSend(i)) => reply.log[j].source # "partial"
  /\ \A i, j \in DOMAIN reply.log :
       (FinalSend(i) /\ reply.log[j].source = "partial") => reply.log[j].status # "inflight"

\* The final text arrived while two partial updates had not settled, and it
\* is being sent as an edit of the anchor.
C29_Witness ==
  /\ reply.deliver.kind = "final"
  /\ reply.deliver.waited = 2
  /\ reply.deliver.status = "running"
  /\ reply.deliver.stage = "edit"

\* Claim C30: a group edit that failed is followed by a send of the same text
\* as a fresh group text; once that text is delivered its message id is the
\* anchor, and the edits after it reference that message id until another
\* group text is delivered.
C30_EditFailureFallsBack ==
  /\ \A i \in DOMAIN reply.log :
       (reply.log[i].type = "edit" /\ reply.log[i].status = "failed") =>
         /\ i + 1 \in DOMAIN reply.log
         /\ reply.log[i + 1].type = "text"
         /\ reply.log[i + 1].stage = "fallback"
         /\ reply.log[i + 1].text = reply.log[i].text
         /\ reply.log[i + 1].op = reply.log[i].op
  /\ \A i \in DOMAIN reply.log :
       (reply.log[i].stage = "fallback" /\ TextSent(i)) =>
         /\ (reply.session # NoSession /\ AnchorBefore(Len(reply.log) + 1) = reply.log[i].id)
              => reply.session.anchor = reply.log[i].id
         /\ \A j \in (i + 1)..Len(reply.log) :
              (reply.log[j].type = "edit" /\ \A h \in (i + 1)..(j - 1) : ~TextSent(h))
                => reply.log[j].anchor = reply.log[i].id

\* An edit failed, the same text was delivered as a fresh group text, and the
\* next chunk was sent as an edit of that text.
C30_Witness ==
  \E i \in DOMAIN reply.log :
    /\ i + 2 \in DOMAIN reply.log
    /\ reply.log[i].type = "edit" /\ reply.log[i].status = "failed"
    /\ reply.log[i + 1].stage = "fallback" /\ TextSent(i + 1)
    /\ reply.log[i + 2].type = "edit"
    /\ reply.log[i + 2].anchor = reply.log[i + 1].id
    /\ reply.log[i + 2].text # reply.log[i].text

\* The sends of the reply so far, each reduced to its type and text.
Outbound == [i \in DOMAIN reply.log |-> <<reply.log[i].type, reply.log[i].text>>]

\* The example has run to its end with every send delivered and the session
\* never expired.
ScenarioDelivered ==
  /\ reply.chunks = Len(Scenario)
  /\ reply.deliver.status = "settled"
  /\ chainSettled(reply.chain)
  /\ \A i \in DOMAIN reply.log : reply.log[i].status = "ok" /\ ~reply.log[i].pruned

\* Claim C31: with minCharsDelta = 1 the example A, AB, ABC, AB, final ABCD
\* produces exactly the group text A, the edit ABC and the edit ABCD, and no
\* edit with text AB is ever sent.
C31_ThreeOutboundMessages ==
  /\ \A i \in DOMAIN reply.log :
       ~(reply.log[i].type = "edit" /\ reply.log[i].text = <<"A", "B">>)
  /\ ScenarioDelivered =>
       Outbound = << <<"text", <<"A">> >>,
                     <<"edit", <<"A", "B", "C">> >>,
                     <<"edit", <<"A", "B", "C", "D">> >> >>

\* Claim C32: a disconnect of the account's session (stop(), or the close of
\* the client's connection) leaves no evolving-reply session of the account
\* in the table.
C32_DisconnectEmptiesReplyTable ==
  [][((account = "running" /\ sock = "open" /\ sock' # "open")
        \/ (~stopped /\ stopped'))
       => reply'.session = NoSession]_vars

\* Claim C33: nothing is handed to the agent on a connection before the
\* ReflectionQueueDry frame has been received or the warm-up time has passed.
C33_NoForwardBeforeQueueDry ==
  \A e \in agent.forwarded : e.dry \/ e.elapsed >= STARTUP_MAX_WARMUP_MS

\* Claim C34: a reflected outgoing message that another device sent is never
\* handed to the agent as an inbound message.
C34_ReflectedOutgoingNotDispatched ==
  \A e \in agent.forwarded :
    ~(e.content = "outgoingMessage" /\ e.kind = "message" /\ ~e.own)

\* Claim C35: stop() clears every direct-typing timer of the account, and once
\* the sends it started have settled, a stopped-typing indicator has gone out
\* for each peer that had an active typing session.
C35_StopSendsFinalTypingIndicators ==
  stopped =>
    /\ \A p \in TypingPeers :
         ~typing.sessions[p].refreshTimer /\ ~typing.sessions[p].stopTimer
    /\ (\A e \in typing.pending : e.by # "stop") => typing.atStop \subseteq typing.finalSent

\* The number of surfaced incomingMessage envelopes with the given key.
SurfacedCount(q, key) ==
  Cardinality({i \in DOMAIN q : /\ q[i].content = "incomingMessage"
                                /\ <<q[i].sender, q[i].mid>> = key})

IncomingKeys == Identities \X MsgIds

\* Claim C36, as stated: a message that arrives on both paths, reflected and
\* CSP, is surfaced at most once.
C36_SurfacedAtMostOnce ==
  \A key \in IncomingKeys : SurfacedCount(surfaced, key) <= 1

\* Claim C36, amended: a message that arrives on either path while its key is
\* in the dedupe set is not surfaced, whichever path handled it first and in
\* whatever order the CSP decodes settle; a message that is surfaced has its
\* key in the set afterwards.
C36_SurfacedOncePerRememberedKey ==
  [][\A key \in IncomingKeys :
       /\ key \in seenIncomingMessageKeys =>
            SurfacedCount(surfaced', key) = SurfacedCount(surfaced, key)
       /\ SurfacedCount(surfaced', key) > SurfacedCount(surfaced, key) =>
            /\ SurfacedCount(surfaced', key) = SurfacedCount(surfaced, key) + 1
            /\ key \in seenIncomingMessageKeys']_vars

\* A message was surfaced from a reflected frame and dropped as a duplicate
\* when its CSP decode settled.
C36_Witness ==
  \E i \in DOMAIN cspIn, j \in DOMAIN surfaced :
    /\ cspIn[i].status = "duplicate"
    /\ surfaced[j].via = "reflected"
    /\ <<surfaced[j].sender, surfaced[j].mid>> = <<cspIn[i].sender, cspIn[i].mid>>

\* The callers whose promise of createOutgoingMessageAckPromise for the key is
\* pending.
AckWaiters(key) ==
  {c \in Callers : calls[c].cspP = "pending" /\ <<calls[c].to, calls[c].mid>> = key}

\* Claim C37: a send that has returned or thrown has left no entry of its own
\* in the pending outgoing-ack table, and every key has at most one pending
\* waiter, the one its table entry names.
C37_NoAckEntryLeftOneWaiterPerKey ==
  /\ \A c \in Callers :
       calls[c].pc \in {"done", "failed"} =>
         /\ c \notin Owners(pendingOutgoingMessageAcks)
         /\ calls[c].cspP # "pending"
  /\ \A key \in Identities \X MsgIds :
       /\ Cardinality(AckWaiters(key)) <= 1
       /\ \A c \in AckWaiters(key) :
            /\ key \in DOMAIN pendingOutgoingMessageAcks
            /\ pendingOutgoingMessageAcks[key].by = c

\* One send has returned, and a later send drew the same message id for the
\* same recipient and waits for its own CSP ack.
C37_Witness ==
  \E c, d \in Callers :
    /\ c # d
    /\ calls[c].pc = "done" /\ calls[c].cspP = "resolved"
    /\ calls[d].cspP = "pending"
    /\ calls[c].mid = calls[d].mid /\ calls[c].to = calls[d].to

\* Claim C38: once stop() has been called no reconnect attempt starts (no timer
\* is set and no timer callback reaches connect()), and a reconnect whose
\* connect() was in flight ends with the client disconnected and not
\* registered in activeClients.
C38_StopEndsReconnects ==
  /\ [][stopped => /\ reconnectTimer' = NoTimer
                   /\ reconnectInFlight' => reconnectInFlight
                   /\ connectP' = "loading" => connectP = "loading"]_vars
  /\ [][(stopped /\ reconnectInFlight /\ ~reconnectInFlight') =>
          /\ ~activeClient'
          /\ sock' \notin {"connecting", "open"}]_vars
  /\ [](stopped => ~activeClient)

\* stop() was called while a reconnect's connect() was loading; the socket was
\* created afterwards, the connect() resolved, and the timer callback
\* disconnected the client.
C38_Witness ==
  /\ stopped
  /\ ~reconnectInFlight /\ connectP = "none"
  /\ ClientHellosSent # {}
  /\ ws = "null" /\ sock = "closing"
  /\ ~activeClient

(***************************************************************************)
(* The states in which the CSP handler acts (SpecCsp)                      *)
(***************************************************************************)
\* The payload containers the handler has sent.
ContainerFramesSent == {i \in 1..Len(wsSent) : wsSent[i].kind = "container"}

\* The 'container' and 'message' events the handler has emitted.
ContainerEvents ==
  {i \in 1..Len(cspEvents) : cspEvents[i].name \in {"container", "message"}}

\* The handler became Ready during this call.
BecameReady ==
  \E i \in (Len(cspEvents) + 1)..Len(cspEvents') : cspEvents'[i].name = "ready"

\* C39: the handler sends and emits payload containers only while Ready (in
\* a call that started in Ready or made it Ready), and Closed is absorbing:
\* once closed, no call sends a frame, emits an event, buffers proxy data or
\* changes the state.
C39_ContainersOnlyWhenReadyClosedAbsorbing ==
  /\ [][(ContainerFramesSent' # ContainerFramesSent
          \/ ContainerEvents' # ContainerEvents)
          => (csp.state = "ready" \/ BecameReady)]_vars
  /\ [][csp.state = "closed"
          => csp' = csp /\ wsSent' = wsSent /\ cspEvents' = cspEvents]_vars

\* A handler that was Ready, sent a message container and then closed.
C39_Witness ==
  /\ csp.state = "closed"
  /\ \E i \in ContainerFramesSent : wsSent[i].ctype = CSP_CONTAINER_OUTGOING_MESSAGE
  /\ \E i \in 1..Len(cspEvents) : cspEvents[i].name = "ready"

(***************************************************************************)
(* What the client reports while the connection is not open (SpecSend)     *)
(***************************************************************************)
\* The mediator connection is not open: never opened, closing after
\* disconnect(), or closed.
NotOpen == sock # "open"

\* Caller c starts a send in this step and it takes the CSP path.
StartsCspSend(c) ==
  calls[c].pc \in {"idle", "done", "failed"} /\ calls'[c].pc = "awaitKey"

\* C40: whenever the mediator connection is not open the client reports
\* neither leader nor CSP-ready, and a send started then does not take the
\* CSP path.
C40_NotOpenNeitherLeaderNorCspReady ==
  /\ [](NotOpen => ~leader /\ csp.state # "ready")
  /\ [][NotOpen => \A c \in Callers : ~StartsCspSend(c)]_vars

====
